---- MODULE Spec2Model ----
(***************************************************************************)
(* A model of the browser-apollo automation scripts: the exception         *)
(* hierarchy and ErrorHandler (exceptions.py), the session manager         *)
(* (helper/session_manager.py), the Apollo state detection of the          *)
(* monitoring system and its step hooks (monitoring.py), the two pipelines *)
(* (main.py, main_controller.py), the configuration manager (config.py),   *)
(* the Cloudflare bypass helper (cloudflare_bypass.py) and the Apify data  *)
(* fetcher (fetch_apify_data.py).                                          *)
(*                                                                         *)
(* Python values are represented as follows.  An optional value is a       *)
(* sequence of length 0 (None) or 1.  A str is a sequence of tokens, a     *)
(* token being one character or one fixed chunk of text; "x in s" is the   *)
(* contiguous-subsequence test Contains.  Keyword arguments are functions  *)
(* from the names given to their values.                                   *)
(***************************************************************************)
EXTENDS Integers, Sequences, FiniteSets, TLC

VARIABLES
    \* ErrorHandler (exceptions.py)
    error_counts,     \* self.error_counts: key -> count, keys present only
    granted,          \* history: True returns of should_retry per key since the key was last reset
    calls,            \* history: number of should_retry calls made
    eh_last,          \* history: the last ErrorHandler call and what it returned
    \* handle_browser_use_errors (exceptions.py)
    wr_func,          \* how the wrapped function ends when called
    wr_last,          \* history: the wrapped call and how it ended
    \* the files the session manager reads, and the clock
    verified_exists,  \* cookies/verified_storage_state.json exists
    regular_exists,   \* cookies/storage_state.json exists
    legacy_exists,    \* cookies/apollo.json exists
    now,              \* datetime.now(), in seconds
    \* ApolloSessionManager (helper/session_manager.py)
    storage_state_path, \* self.storage_state_path: "verified" or "regular"
    sm_verified_at_init, \* history: verified_path.exists() when __init__ ran
    last_validation,  \* self.last_validation: None or the time cached
    vs_last,          \* history: the last validate_session call
    ar_pc,            \* auto_recover_session: where the coroutine stands
    ar_auth,          \* auto_recover_session: auth_config
    ar_i,             \* auto_recover_session: index of the recovery configuration
    ar_tried,         \* history: the recovery configurations run, in order
    ar_result,        \* history: how the last auto_recover_session call ended
    \* the pipelines (main.py, main_controller.py)
    pl_script,        \* the script run: "main" or "controller"
    pl_pc,            \* where main() stands
    csv_exists,       \* DOMAINS_CSV.exists()
    apify_token,      \* APIFY_TOKEN: os.getenv("APIFY_TOKEN")
    pl_auth,          \* auth_config
    pl_result,        \* str(result) of the search agent, None before it returns
    pl_search_id,     \* search_id_match.group(1), None when there is no match
    apify_calls,      \* history: the url of each Apify actor call
    pl_end,           \* history: how main() ended
    pl_validations,   \* history: validate_session / auto_recover_session calls made
    pl_agent_started, \* history: the search agent has been started
    \* ApolloMonitoringSystem (monitoring.py)
    mon_url,          \* page.url
    mon_last,         \* history: the last _validate_state_transitions call
    steps_executed,   \* self.metrics["steps_executed"]
    errors_detected,  \* self.metrics["errors_detected"]
    security_alerts,  \* self.metrics["security_alerts"]: type, url and step of each
    hk_last,          \* history: the last hook call and how it ended
    \* ApolloConfigManager (config.py)
    config_file,      \* the configuration file: absent, unreadable or its JSON object
    environ,          \* os.environ: the variables set and their strs
    cm,               \* the manager's settings, None while none is constructed
    cm_last,          \* history: how ApolloConfigManager() ended
    \* test_cloudflare_bypass (cloudflare_bypass.py)
    cb_pc,            \* where the coroutine stands
    cb_i,             \* i of "for i, strategy in enumerate(strategies, 1)"
    cb_log,           \* history: the agents run and the sleeps made, in order
    cb_return,        \* history: what the coroutine returned
    \* fetch_apify_data.py
    fa_input,         \* APIFY_TOKEN, what the user types and what Apify answers
    output_files,     \* the files in output/
    fa_last           \* history: how main() ended

ehVars == <<error_counts, granted, calls, eh_last>>
wrVars == <<wr_func, wr_last>>
fsVars == <<verified_exists, regular_exists, legacy_exists>>
smVars == <<storage_state_path, sm_verified_at_init, last_validation, vs_last, ar_pc,
            ar_auth, ar_i,
            ar_tried, ar_result>>
plVars == <<pl_script, pl_pc, csv_exists, apify_token, pl_auth, pl_result,
            pl_search_id, apify_calls, pl_end, pl_validations, pl_agent_started>>
monVars == <<mon_url, mon_last>>
hkVars == <<steps_executed, errors_detected, security_alerts, hk_last>>
cmVars == <<config_file, environ, cm, cm_last>>
cbVars == <<cb_pc, cb_i, cb_log, cb_return>>
faVars == <<fa_input, output_files, fa_last>>
notEhVars == <<wrVars, fsVars, now, smVars, plVars, monVars, hkVars, cmVars, cbVars, faVars>>
notWrVars == <<ehVars, fsVars, now, smVars, plVars, monVars, hkVars, cmVars, cbVars, faVars>>
notSmVars == <<ehVars, wrVars, plVars, monVars, hkVars, cmVars, cbVars, faVars>>
notPlVars == <<ehVars, wrVars, monVars, hkVars, cmVars, cbVars, faVars>>
notMonVars == <<ehVars, wrVars, fsVars, now, smVars, plVars, hkVars, cmVars, cbVars, faVars>>
notHkVars == <<ehVars, wrVars, fsVars, now, smVars, plVars, monVars, cmVars, cbVars, faVars>>
notCmVars == <<ehVars, wrVars, fsVars, now, smVars, plVars, monVars, hkVars, cbVars, faVars>>
notCbVars == <<ehVars, wrVars, fsVars, now, smVars, plVars, monVars, hkVars, cmVars, faVars>>
notFaVars == <<ehVars, wrVars, fsVars, now, smVars, plVars, monVars, hkVars, cmVars, cbVars>>
vars == <<error_counts, granted, calls, eh_last, wr_func, wr_last,
          verified_exists, regular_exists, legacy_exists, now,
          storage_state_path, sm_verified_at_init, last_validation, vs_last,
          ar_pc, ar_auth, ar_i, ar_tried, ar_result,
          pl_script, pl_pc, csv_exists, apify_token, pl_auth, pl_result,
          pl_search_id, apify_calls, pl_end, pl_validations, pl_agent_started,
          mon_url, mon_last,
          steps_executed, errors_detected, security_alerts, hk_last,
          config_file, environ, cm, cm_last,
          cb_pc, cb_i, cb_log, cb_return,
          fa_input, output_files, fa_last>>

----------------------------------------------------------------------------
\* Python values

None == <<>>
Some(v) == <<v>>

Truthy_NotNone(opt) == opt # <<>>

\* bool(x) for an Optional[int]: None and 0 are false
Truthy(opt) == opt # None /\ opt[1] # 0

Min(a, b) == IF a < b THEN a ELSE b

\* pattern in s, for strs as token sequences
Contains(s, pat) ==
    \E i \in 1..(Len(s) - Len(pat) + 1) : SubSeq(s, i, i + Len(pat) - 1) = pat

\* kwargs[k] = v
Put(kw, k, v) == [x \in (DOMAIN kw) \cup {k} |-> IF x = k THEN v ELSE kw[x]]

\* kwargs.get(k, d)
Get(kw, k, d) == IF k \in DOMAIN kw THEN kw[k] ELSE d

NoKwargs == [x \in {} |-> None]

----------------------------------------------------------------------------
\* exceptions.py: the exception hierarchy.  An exception object is the record
\* of the attributes the handlers read.

\* ApolloAutomationError.__init__(message, error_code=None, context=None,
\*                                recoverable=False, retry_after=None)
ApolloAutomationErrorInit(cls, kw) ==
    LET code == Get(kw, "error_code", "")
    IN  [cls         |-> cls,
         error_code  |-> IF code # "" THEN code ELSE cls,
         recoverable |-> Get(kw, "recoverable", FALSE),
         retry_after |-> Get(kw, "retry_after", None)]

\* AuthenticationError.__init__(message, auth_method=None, **kwargs)
AuthenticationErrorInit(cls, kw) ==
    ApolloAutomationErrorInit(cls, Put(kw, "recoverable", TRUE))

\* SessionExpiredError.__init__(session_type=None, **kwargs)
SessionExpiredErrorInit(cls, kw) ==
    AuthenticationErrorInit(cls, Put(kw, "retry_after", Some(60)))

\* InvalidCredentialsError.__init__(**kwargs)
InvalidCredentialsErrorInit(cls, kw) ==
    AuthenticationErrorInit(cls, Put(kw, "recoverable", FALSE))

\* BrowserError.__init__(message, browser_type=None, **kwargs)
BrowserErrorInit(cls, kw) == ApolloAutomationErrorInit(cls, kw)

\* PageLoadError.__init__(url, timeout=None, **kwargs)
PageLoadErrorInit(cls, kw) ==
    BrowserErrorInit(cls, Put(Put(kw, "recoverable", TRUE), "retry_after", Some(30)))

\* ElementNotFoundError.__init__(selector, page_url=None, **kwargs)
ElementNotFoundErrorInit(cls, kw) ==
    BrowserErrorInit(cls, Put(kw, "recoverable", TRUE))

\* RateLimitError.__init__(retry_after=300, **kwargs)
RateLimitErrorInit(cls, kw) ==
    LET retry_after == Get(kw, "retry_after", Some(300))
    IN  ApolloAutomationErrorInit(cls,
            Put(Put(kw, "recoverable", TRUE), "retry_after", retry_after))

\* CloudflareError.__init__(**kwargs)
CloudflareErrorInit(cls, kw) ==
    ApolloAutomationErrorInit(cls,
        Put(Put(kw, "recoverable", TRUE), "retry_after", Some(60)))

\* ConfigurationError.__init__(config_type, issue, **kwargs)
ConfigurationErrorInit(cls, kw) ==
    ApolloAutomationErrorInit(cls, Put(kw, "recoverable", FALSE))

\* cls(**kw): the constructor the class resolves to
NewError(cls, kw) ==
    CASE cls = "ApolloAutomationError"   -> ApolloAutomationErrorInit(cls, kw)
      [] cls = "AuthenticationError"     -> AuthenticationErrorInit(cls, kw)
      [] cls = "SessionExpiredError"     -> SessionExpiredErrorInit(cls, kw)
      [] cls = "InvalidCredentialsError" -> InvalidCredentialsErrorInit(cls, kw)
      [] cls = "PageLoadError"           -> PageLoadErrorInit(cls, kw)
      [] cls = "ElementNotFoundError"    -> ElementNotFoundErrorInit(cls, kw)
      [] cls = "RateLimitError"          -> RateLimitErrorInit(cls, kw)
      [] cls = "CloudflareError"         -> CloudflareErrorInit(cls, kw)
      [] cls = "ConfigurationError"      -> ConfigurationErrorInit(cls, kw)

----------------------------------------------------------------------------
\* exceptions.py: ErrorHandler

\* self.max_retries
max_retries == 3

\* f"{error.__class__.__name__}:{error.error_code}"
ErrorKey(error) == <<error.cls, error.error_code>>

\* self.error_counts.get(key, default)
CountOf(counts, key, default) == IF key \in DOMAIN counts THEN counts[key] ELSE default

RetryLimitReached_Off(current_count) == current_count > max_retries

\* current_count >= self.max_retries
RetryLimitReached(current_count) == current_count >= max_retries

\* should_retry(error): the value returned and the error_counts it leaves
should_retry(counts, error) ==
    IF ~error.recoverable
    THEN [ret |-> FALSE, counts |-> counts]
    ELSE LET error_key == ErrorKey(error)
             current_count == CountOf(counts, error_key, 0)
         IN  IF RetryLimitReached(current_count)
             THEN [ret |-> FALSE, counts |-> counts]
             ELSE [ret |-> TRUE, counts |-> Put(counts, error_key, current_count + 1)]

\* min(60, 2 ** attempt)
BackoffDelay(attempt) == Min(60, 2 ^ attempt)

\* get_retry_delay(error)
get_retry_delay(counts, error) ==
    IF Truthy(error.retry_after)
    THEN error.retry_after[1]
    ELSE BackoffDelay(CountOf(counts, ErrorKey(error), 1))

\* key.startswith(error_class.__name__): a key is "ClassName:code", no class
\* name of the hierarchy is a prefix of another and none holds a colon, so the
\* key starts with the name exactly when it is a key of that class
KeyStartsWith(key, class_name) == key[1] = class_name

\* reset_error_count(error_class): the error_counts it leaves
reset_error_count(counts, class_name) ==
    [k \in {k \in DOMAIN counts : ~KeyStartsWith(k, class_name)} |-> counts[k]]

\* The errors the handler is called with: every modelled class, constructed
\* with every combination of the keyword arguments below.
HandlerClasses ==
    {"ApolloAutomationError", "AuthenticationError", "InvalidCredentialsError",
     "RateLimitError"}

\* a keyword argument is absent (<<>>) or given (<<value>>)
Given(kw, k, choice) == IF choice = <<>> THEN kw ELSE Put(kw, k, choice[1])

KwargsSet ==
    { Given(Given(Given(NoKwargs, "error_code", c), "recoverable", r), "retry_after", t) :
        c \in {<<>>, <<"">>, <<"E1">>},
        r \in {<<>>, <<TRUE>>, <<FALSE>>},
        t \in {<<>>, <<Some(0)>>, <<Some(45)>>} }

HandlerErrors == { NewError(cls, kw) : cls \in HandlerClasses, kw \in KwargsSet }

\* should_retry calls made on one handler
MaxCalls == 4

NoCall == [op |-> "none"]

\* the state of the parts a specification leaves alone
IdleErrorHandler ==
    /\ error_counts = NoKwargs
    /\ granted = NoKwargs
    /\ calls = 0
    /\ eh_last = NoCall

IdleWrapper ==
    /\ wr_func = [kind |-> "return", value |-> "ok"]
    /\ wr_last = NoCall

IdleSession ==
    /\ verified_exists = FALSE
    /\ regular_exists = FALSE
    /\ legacy_exists = FALSE
    /\ now = 0
    /\ storage_state_path = "regular"
    /\ sm_verified_at_init = FALSE
    /\ last_validation = <<>>
    /\ vs_last = NoCall
    /\ ar_pc = "idle"
    /\ ar_auth = <<>>
    /\ ar_i = 0
    /\ ar_tried = <<>>
    /\ ar_result = "none"

IdlePipeline ==
    /\ pl_script = "none"
    /\ pl_pc = "done"
    /\ csv_exists = FALSE
    /\ apify_token = <<>>
    /\ pl_auth = <<>>
    /\ pl_result = <<>>
    /\ pl_search_id = <<>>
    /\ apify_calls = <<>>
    /\ pl_end = "none"
    /\ pl_validations = 0
    /\ pl_agent_started = FALSE

IdleMonitor ==
    /\ mon_url = <<>>
    /\ mon_last = NoCall

IdleHooks ==
    /\ steps_executed = 0
    /\ errors_detected = 0
    /\ security_alerts = <<>>
    /\ hk_last = NoCall

IdleConfig ==
    /\ config_file = [kind |-> "absent"]
    /\ environ = NoKwargs
    /\ cm = <<>>
    /\ cm_last = NoCall

IdleCloudflare ==
    /\ cb_pc = "done"
    /\ cb_i = 0
    /\ cb_log = <<>>
    /\ cb_return = "none"

IdleFetch ==
    /\ fa_input = NoCall
    /\ output_files = {}
    /\ fa_last = NoCall

\* the parts none of the specifications of the first sections uses
IdleOthers ==
    /\ IdleHooks
    /\ IdleConfig
    /\ IdleCloudflare
    /\ IdleFetch

\* ErrorHandler.__init__
InitErrorHandler ==
    /\ error_counts = NoKwargs
    /\ granted = NoKwargs
    /\ calls = 0
    /\ eh_last = NoCall
    /\ IdleWrapper
    /\ IdleSession
    /\ IdlePipeline
    /\ IdleMonitor
    /\ IdleOthers

ShouldRetry(error) ==
    /\ calls < MaxCalls
    /\ LET r == should_retry(error_counts, error)
           key == ErrorKey(error)
       IN  /\ error_counts' = r.counts
           /\ granted' = IF r.ret THEN Put(granted, key, CountOf(granted, key, 0) + 1)
                                  ELSE granted
           /\ eh_last' = [op |-> "should_retry", error |-> error, ret |-> r.ret]
    /\ calls' = calls + 1
    /\ UNCHANGED notEhVars

GetRetryDelay(error) ==
    /\ eh_last' = [op |-> "get_retry_delay", error |-> error,
                   ret |-> get_retry_delay(error_counts, error)]
    /\ UNCHANGED <<error_counts, granted, calls>>
    /\ UNCHANGED notEhVars

ResetErrorCount(class_name) ==
    /\ error_counts' = reset_error_count(error_counts, class_name)
    /\ granted' = [k \in {k \in DOMAIN granted : k[1] # class_name} |-> granted[k]]
    /\ eh_last' = [op |-> "reset_error_count", cls |-> class_name]
    /\ UNCHANGED calls
    /\ UNCHANGED notEhVars

NextErrorHandler ==
    \/ \E error \in HandlerErrors : ShouldRetry(error)
    \/ \E error \in HandlerErrors : GetRetryDelay(error)
    \/ \E class_name \in HandlerClasses : ResetErrorCount(class_name)

SpecErrorHandler == InitErrorHandler /\ [][NextErrorHandler]_vars

\* C1: should_retry bounds retries: between resets of a key at most
\* max_retries calls return True for the errors of that key, and in every
\* reachable state error_counts[key] <= max_retries for every key.
C1_RetriesBounded ==
    /\ \A k \in DOMAIN error_counts : error_counts[k] <= max_retries
    /\ \A k \in DOMAIN granted : granted[k] <= max_retries

\* a recoverable error is refused once its key has been granted max_retries times
C1_Witness ==
    /\ eh_last.op = "should_retry"
    /\ eh_last.error.recoverable
    /\ ~eh_last.ret
    /\ CountOf(granted, ErrorKey(eh_last.error), 0) = max_retries

\* C2: every InvalidCredentialsError has recoverable = False, whatever keyword
\* arguments it is constructed with, so should_retry never returns True for one.
C2_InvalidCredentialsNotRecoverable ==
    (eh_last.op = "should_retry" /\ eh_last.error.cls = "InvalidCredentialsError")
        => (~eh_last.error.recoverable /\ ~eh_last.ret)

\* attempts the backoff is evaluated at
MaxAttempt == 7

\* the delay get_retry_delay gives error when the count recorded for its key is c
C9_DelayAt(error, c) == get_retry_delay(Put(NoKwargs, ErrorKey(error), c), error)

\* C9 as stated: get_retry_delay returns error.retry_after when the error
\* carries one and otherwise min(60, 2^attempt), attempt the count recorded
\* for the error's key (1 if none).
C9_Original ==
    eh_last.op = "get_retry_delay" =>
        LET e == eh_last.error
            k == ErrorKey(e)
            attempt == IF k \in DOMAIN error_counts THEN error_counts[k] ELSE 1
        IN  eh_last.ret = IF e.retry_after # <<>> THEN e.retry_after[1]
                          ELSE (IF 2 ^ attempt < 60 THEN 2 ^ attempt ELSE 60)

\* C9 as amended: get_retry_delay returns error.retry_after when it is set and
\* not zero, and otherwise (None or 0) min(60, 2^attempt), attempt the count
\* recorded for the error's key (1 if none); the backoff delay never exceeds 60
\* and never decreases as the recorded count grows.
C9_RetryDelay ==
    eh_last.op = "get_retry_delay" =>
        LET e == eh_last.error
            k == ErrorKey(e)
            attempt == IF k \in DOMAIN error_counts THEN error_counts[k] ELSE 1
            carried == e.retry_after # <<>> /\ e.retry_after[1] # 0
        IN  /\ eh_last.ret = IF carried THEN e.retry_after[1]
                             ELSE (IF 2 ^ attempt < 60 THEN 2 ^ attempt ELSE 60)
            /\ ~carried =>
                  /\ eh_last.ret <= 60
                  /\ \A c \in 1..MaxAttempt :
                        /\ C9_DelayAt(e, c) <= 60
                        /\ C9_DelayAt(e, c) <= C9_DelayAt(e, c + 1)

\* the backoff is taken for an error whose retry_after is 0, at a recorded count of 2 or more
C9_Witness ==
    /\ eh_last.op = "get_retry_delay"
    /\ eh_last.error.retry_after = <<0>>
    /\ ErrorKey(eh_last.error) \in DOMAIN error_counts
    /\ error_counts[ErrorKey(eh_last.error)] >= 2
    /\ eh_last.ret = 2 ^ error_counts[ErrorKey(eh_last.error)]

----------------------------------------------------------------------------
\* exceptions.py: handle_browser_use_errors

\* The words a message is made of.  str.lower() maps each to its lower case.
MessageWords ==
    {"rate limit", "Rate Limit", "cloudflare", "CLOUDFLARE", "timeout", "navigation",
     "element", "not found", "authentication", "login", "Login", "failed"}

LowerWord(w) ==
    CASE w = "Rate Limit" -> "rate limit"
      [] w = "CLOUDFLARE" -> "cloudflare"
      [] w = "Login"      -> "login"
      [] w = "APOLLO"     -> "apollo"
      [] w = "IO"         -> "io"
      [] w = "TRUE"       -> "true"
      [] w = "Yes"        -> "yes"
      [] OTHER            -> w

\* str(e).lower()
Lower(message) == [i \in 1..Len(message) |-> LowerWord(message[i])]

\* the class of the ApolloAutomationError the wrapper raises for a lower-cased message
ClassifyMessage_AuthFirst(error_message) ==
    IF Contains(error_message, <<"rate limit">>) THEN "RateLimitError"
    ELSE IF Contains(error_message, <<"cloudflare">>) THEN "CloudflareError"
    ELSE IF Contains(error_message, <<"authentication">>)
            \/ Contains(error_message, <<"login">>) THEN "AuthenticationError"
    ELSE IF Contains(error_message, <<"timeout">>)
            \/ Contains(error_message, <<"navigation">>) THEN "PageLoadError"
    ELSE IF Contains(error_message, <<"element">>)
            /\ Contains(error_message, <<"not found">>) THEN "ElementNotFoundError"
    ELSE "ApolloAutomationError"

ClassifyMessage(error_message) ==
    IF Contains(error_message, <<"rate limit">>) THEN "RateLimitError"
    ELSE IF Contains(error_message, <<"cloudflare">>) THEN "CloudflareError"
    ELSE IF Contains(error_message, <<"timeout">>)
            \/ Contains(error_message, <<"navigation">>) THEN "PageLoadError"
    ELSE IF Contains(error_message, <<"element">>)
            /\ Contains(error_message, <<"not found">>) THEN "ElementNotFoundError"
    ELSE IF Contains(error_message, <<"authentication">>)
            \/ Contains(error_message, <<"login">>) THEN "AuthenticationError"
    ELSE "ApolloAutomationError"

\* wrapper(*args, **kwargs): how the call ends for an outcome of func.  An
\* outcome is a returned value or a raised exception; "except Exception" takes
\* the exceptions that derive from Exception and lets the others
\* (KeyboardInterrupt, SystemExit, GeneratorExit, asyncio.CancelledError) pass.
wrapper(outcome) ==
    IF outcome.kind = "return"
    THEN outcome
    ELSE IF outcome.is_exception
         THEN LET cls == ClassifyMessage(Lower(outcome.message))
              IN  [kind |-> "raise", converted |-> TRUE,
                   error |-> NewError(cls, NoKwargs)]
         ELSE [kind |-> "raise", converted |-> FALSE, error |-> outcome]

\* words in a message
MaxMessageLen == 3

Messages == UNION { [1..n -> MessageWords] : n \in 0..MaxMessageLen }

\* values func returns
ReturnValues == {"ok", "none"}

FuncOutcomes ==
    { [kind |-> "return", value |-> v] : v \in ReturnValues }
    \cup { [kind |-> "raise", is_exception |-> b, message |-> m] :
            b \in BOOLEAN, m \in Messages }

\* a decorated function about to be called
InitWrapper ==
    /\ wr_func \in FuncOutcomes
    /\ wr_last = NoCall
    /\ IdleErrorHandler
    /\ IdleSession
    /\ IdlePipeline
    /\ IdleMonitor
    /\ IdleOthers

CallWrapped ==
    /\ wr_last = NoCall
    /\ wr_last' = [op |-> "wrapper", outcome |-> wr_func, result |-> wrapper(wr_func)]
    /\ UNCHANGED <<wr_func, notWrVars>>

NextWrapper == CallWrapped

SpecWrapper == InitWrapper /\ [][NextWrapper]_vars

\* whether word w, in any case, is in the message
C8_Has(message, w) == \E i \in 1..Len(message) : LowerWord(message[i]) = w

\* the class the listed precedence selects
C8_Expected(message) ==
    CASE C8_Has(message, "rate limit") -> "RateLimitError"
      [] ~C8_Has(message, "rate limit") /\ C8_Has(message, "cloudflare") -> "CloudflareError"
      [] ~C8_Has(message, "rate limit") /\ ~C8_Has(message, "cloudflare")
         /\ (C8_Has(message, "timeout") \/ C8_Has(message, "navigation")) -> "PageLoadError"
      [] ~C8_Has(message, "rate limit") /\ ~C8_Has(message, "cloudflare")
         /\ ~(C8_Has(message, "timeout") \/ C8_Has(message, "navigation"))
         /\ (C8_Has(message, "element") /\ C8_Has(message, "not found")) -> "ElementNotFoundError"
      [] ~C8_Has(message, "rate limit") /\ ~C8_Has(message, "cloudflare")
         /\ ~(C8_Has(message, "timeout") \/ C8_Has(message, "navigation"))
         /\ ~(C8_Has(message, "element") /\ C8_Has(message, "not found"))
         /\ (C8_Has(message, "authentication") \/ C8_Has(message, "login")) -> "AuthenticationError"
      [] OTHER -> "ApolloAutomationError"

\* C8 as stated: every exception raised by the wrapped function is converted
\* into the ApolloAutomationError the precedence selects, a normal return
\* passes through unchanged, and no non-Apollo exception escapes the wrapper.
C8_Original ==
    wr_last.op = "wrapper" =>
        IF wr_last.outcome.kind = "return"
        THEN wr_last.result = wr_last.outcome
        ELSE /\ wr_last.result.kind = "raise"
             /\ wr_last.result.converted
             /\ wr_last.result.error.cls = C8_Expected(wr_last.outcome.message)

\* C8 as amended: every exception deriving from Exception that the wrapped
\* function raises is converted into the ApolloAutomationError the precedence
\* selects, a normal return passes through unchanged, and the only
\* non-Apollo exceptions that escape are those not deriving from Exception,
\* which pass through as raised.
C8_Conversion ==
    wr_last.op = "wrapper" =>
        IF wr_last.outcome.kind = "return"
        THEN wr_last.result = wr_last.outcome
        ELSE /\ wr_last.result.kind = "raise"
             /\ wr_last.result.converted = wr_last.outcome.is_exception
             /\ IF wr_last.outcome.is_exception
                THEN wr_last.result.error.cls = C8_Expected(wr_last.outcome.message)
                ELSE wr_last.result.error = wr_last.outcome

\* an exception naming an element not found and a login is converted by the earlier rule
C8_Witness ==
    /\ wr_last.op = "wrapper"
    /\ wr_last.outcome.kind = "raise"
    /\ wr_last.outcome.is_exception
    /\ wr_last.outcome.message = <<"Login", "element", "not found">>
    /\ wr_last.result.error.cls = "ElementNotFoundError"

----------------------------------------------------------------------------
\* helper/session_manager.py: ApolloSessionManager

\* self.validation_interval
validation_interval == 300

\* __init__: verified_path if verified_path.exists() else regular_path
ChooseStoragePath(verified) == IF verified THEN "verified" ELSE "regular"

\* self.storage_state_path.exists()
StorageStateExists(path, verified, regular) ==
    IF path = "verified" THEN verified ELSE regular

\* the legacy cookies preferred to the storage state
get_auth_config_LegacyFirst(path, verified, regular, legacy) ==
    IF legacy
    THEN Put(NoKwargs, "cookies_file", "legacy")
    ELSE IF StorageStateExists(path, verified, regular)
         THEN Put(NoKwargs, "storage_state", path)
         ELSE NoKwargs

\* _get_auth_config(): the dict returned, {} when no file exists
get_auth_config(path, verified, regular, legacy) ==
    IF StorageStateExists(path, verified, regular)
    THEN Put(NoKwargs, "storage_state", path)
    ELSE IF legacy
         THEN Put(NoKwargs, "cookies_file", "legacy")
         ELSE NoKwargs

CachedWithin_Inclusive(elapsed) == elapsed <= validation_interval

\* elapsed < self.validation_interval
CachedWithin(elapsed) == elapsed < validation_interval

\* _is_cached_validation_valid(), at time t
is_cached_validation_valid(last, t) ==
    IF last = None THEN FALSE ELSE CachedWithin(t - last[1])

\* _cache_validation_result(success), at time t: the last_validation it leaves
cache_validation_result(success, t) == IF success THEN Some(t) ELSE None

\* The words an agent's result is made of.  str.upper() maps each to its upper case.
UpperWord(w) ==
    CASE w = "logged_in"        -> "LOGGED_IN"
      [] w = "not_"             -> "NOT_"
      [] w = "dashboard"        -> "DASHBOARD"
      [] w = "home"             -> "HOME"
      [] w = "recovery_success" -> "RECOVERY_SUCCESS"
      [] w = "recovery_failed"  -> "RECOVERY_FAILED"
      [] w = "login form"       -> "LOGIN FORM"
      [] w = "login_complete"   -> "LOGIN_COMPLETE"
      [] w = "success"          -> "SUCCESS"
      [] w = "Success"          -> "SUCCESS"
      [] w = "blocked"          -> "BLOCKED"
      [] w = "un"               -> "UN"
      [] w = "ful"              -> "FUL"
      [] OTHER                  -> w

\* str(result).upper()
Upper(text) == [i \in 1..Len(text) |-> UpperWord(text[i])]

\* the fallback for a non-structured result
TextSaysLoggedIn(result_str) ==
    \/ Contains(result_str, <<"LOGGED_IN">>)
    \/ Contains(result_str, <<"DASHBOARD">>)
    \/ Contains(result_str, <<"HOME">>)

\* What the try block of validate_session meets once the cache has missed:
\* agent.run returns an AuthenticationResult, or something else whose str is
\* the text, or the profile, the agent or the run raises.
ValidationTexts ==
    {<<"LOGGED_IN">>, <<"NOT_", "LOGGED_IN">>, <<"dashboard">>, <<"login form">>}

ValidationOutcomes ==
    { [kind |-> "structured", authenticated |-> b, text |-> <<>>, cls |-> ""] :
        b \in BOOLEAN }
    \cup { [kind |-> "text", authenticated |-> FALSE, text |-> t, cls |-> ""] :
            t \in ValidationTexts }
    \cup { [kind |-> "raise", authenticated |-> FALSE, text |-> <<>>, cls |-> c] :
            c \in {"Exception", "AuthenticationError"} }

\* validate_session(), entered at time t0 with the agent's run ending at t1:
\* how the call ends (a value returned or an error raised), whether the agent
\* path was taken, and the last_validation it leaves
validate_session(auth_config, last, t0, t1, outcome) ==
    IF auth_config = NoKwargs
    THEN [end |-> "return", value |-> FALSE, error |-> "", agent |-> FALSE,
          last_validation |-> last]
    ELSE IF is_cached_validation_valid(last, t0)
    THEN [end |-> "return", value |-> TRUE, error |-> "", agent |-> FALSE,
          last_validation |-> last]
    ELSE IF outcome.kind = "raise"
    THEN [end |-> "raise", value |-> FALSE,
          error |-> IF outcome.cls \in {"AuthenticationError", "SessionExpiredError"}
                    THEN outcome.cls ELSE "AuthenticationError",
          agent |-> TRUE, last_validation |-> last]
    ELSE LET success == IF outcome.kind = "structured"
                        THEN outcome.authenticated
                        ELSE TextSaysLoggedIn(Upper(outcome.text))
         IN  IF success
             THEN [end |-> "return", value |-> TRUE, error |-> "", agent |-> TRUE,
                   last_validation |-> cache_validation_result(TRUE, t1)]
             ELSE [end |-> "raise", value |-> FALSE, error |-> "SessionExpiredError",
                   agent |-> TRUE, last_validation |-> last]

\* recovery_configs
recovery_configs ==
    << [headless |-> FALSE, extra_args |-> "--incognito"],
       [headless |-> TRUE,  extra_args |-> "--disable-web-security"],
       [headless |-> FALSE, extra_args |-> "--user-data-dir=apollo_profile"] >>

\* What one recovery attempt meets: agent.run returns something whose str is
\* the text, or the profile, the agent or the run raises an Exception.
RecoveryOutcomes ==
    { [kind |-> "text", text |-> t] :
        t \in {<<"RECOVERY_SUCCESS">>, <<"recovery_success">>, <<"RECOVERY_FAILED">>} }
    \cup { [kind |-> "raise", text |-> <<>>] }

\* "RECOVERY_SUCCESS" in str(result).upper()
RecoverySucceeded(outcome) ==
    outcome.kind = "text" /\ Contains(Upper(outcome.text), <<"RECOVERY_SUCCESS">>)

\* clock readings: each multiple of the validation interval and the second before it
MaxPeriods == 1

TimePoints ==
    { t \in { k * validation_interval + j : k \in 0..MaxPeriods, j \in {-1, 0} } :
        t >= 0 }

\* ApolloSessionManager.__init__, with any of the three files on disk
InitSession ==
    /\ verified_exists \in BOOLEAN
    /\ regular_exists \in BOOLEAN
    /\ legacy_exists \in BOOLEAN
    /\ now = 0
    /\ storage_state_path = ChooseStoragePath(verified_exists)
    /\ sm_verified_at_init = verified_exists
    /\ last_validation = None
    /\ vs_last = NoCall
    /\ ar_pc = "idle"
    /\ ar_auth = NoKwargs
    /\ ar_i = 0
    /\ ar_tried = <<>>
    /\ ar_result = "none"
    /\ IdleErrorHandler
    /\ IdleWrapper
    /\ IdlePipeline
    /\ IdleMonitor
    /\ IdleOthers

\* the record of a validate_session call entered at time now
ValidationRecord(auth_config, r) ==
    [op |-> "validate_session",
     auth |-> auth_config # NoKwargs,
     elapsed |-> IF last_validation = None THEN None ELSE Some(now - last_validation[1]),
     agent |-> r.agent, end |-> r.end, value |-> r.value, error |-> r.error,
     cached |-> r.last_validation # last_validation]

\* await manager.validate_session(), called directly
ValidateSession(outcome, t1) ==
    /\ t1 >= now
    /\ ar_pc \in {"idle", "done"}
    /\ LET auth_config == get_auth_config(storage_state_path, verified_exists,
                                          regular_exists, legacy_exists)
           r == validate_session(auth_config, last_validation, now, t1, outcome)
       IN  /\ last_validation' = r.last_validation
           /\ vs_last' = ValidationRecord(auth_config, r)
           /\ now' = IF r.agent THEN t1 ELSE now
    /\ UNCHANGED <<storage_state_path, sm_verified_at_init, ar_pc, ar_auth, ar_i, ar_tried, ar_result>>
    /\ UNCHANGED <<fsVars, notSmVars>>

\* auto_recover_session(): up to the return of "await self.validate_session()"
AutoRecoverStart(outcome, t1) ==
    /\ t1 >= now
    /\ ar_pc \in {"idle", "done"}
    /\ LET auth_config == get_auth_config(storage_state_path, verified_exists,
                                          regular_exists, legacy_exists)
           r == validate_session(auth_config, last_validation, now, t1, outcome)
       IN  /\ last_validation' = r.last_validation
           /\ vs_last' = ValidationRecord(auth_config, r)
           /\ now' = IF r.agent THEN t1 ELSE now
           /\ IF r.end = "raise"
              THEN ar_pc' = "done" /\ ar_result' = "raised"
              ELSE IF r.value
                   THEN ar_pc' = "done" /\ ar_result' = "True"
                   ELSE ar_pc' = "check_auth" /\ ar_result' = "none"
    /\ ar_auth' = NoKwargs
    /\ ar_i' = 0
    /\ ar_tried' = <<>>
    /\ UNCHANGED <<storage_state_path, sm_verified_at_init>>
    /\ UNCHANGED <<fsVars, notSmVars>>

\* auto_recover_session(): auth_config = self._get_auth_config() and the way
\* into the loop
AutoRecoverCheckAuth ==
    /\ ar_pc = "check_auth"
    /\ LET auth_config == get_auth_config(storage_state_path, verified_exists,
                                          regular_exists, legacy_exists)
       IN  /\ ar_auth' = auth_config
           /\ IF auth_config = NoKwargs
              THEN ar_pc' = "done" /\ ar_result' = "False" /\ ar_i' = 0
              ELSE ar_pc' = "attempt" /\ ar_result' = "none" /\ ar_i' = 1
    /\ UNCHANGED <<storage_state_path, sm_verified_at_init, last_validation, vs_last, ar_tried>>
    /\ UNCHANGED <<fsVars, now, notSmVars>>

\* auto_recover_session(): one turn of the loop over recovery_configs
AutoRecoverAttempt(outcome) ==
    /\ ar_pc = "attempt"
    /\ ar_tried' = Append(ar_tried, recovery_configs[ar_i])
    /\ IF RecoverySucceeded(outcome)
       THEN ar_pc' = "done" /\ ar_result' = "True" /\ ar_i' = ar_i
       ELSE IF ar_i < Len(recovery_configs)
            THEN ar_pc' = "attempt" /\ ar_result' = "none" /\ ar_i' = ar_i + 1
            ELSE ar_pc' = "done" /\ ar_result' = "False" /\ ar_i' = ar_i
    /\ UNCHANGED <<storage_state_path, sm_verified_at_init, last_validation, vs_last, ar_auth>>
    /\ UNCHANGED <<fsVars, now, notSmVars>>

\* time passes
Tick(t) ==
    /\ t > now
    /\ now' = t
    /\ UNCHANGED <<fsVars, smVars, notSmVars>>

\* a session file is written or removed by another program
FileChange ==
    /\ \/ verified_exists' = ~verified_exists /\ UNCHANGED <<regular_exists, legacy_exists>>
       \/ regular_exists' = ~regular_exists /\ UNCHANGED <<verified_exists, legacy_exists>>
       \/ legacy_exists' = ~legacy_exists /\ UNCHANGED <<verified_exists, regular_exists>>
    /\ UNCHANGED <<now, smVars, notPlVars>>

\* a session file changes while a session manager is in use
SessionFileChange ==
    /\ FileChange
    /\ UNCHANGED plVars

NextSession ==
    \/ \E outcome \in ValidationOutcomes, t1 \in TimePoints : ValidateSession(outcome, t1)
    \/ \E outcome \in ValidationOutcomes, t1 \in TimePoints : AutoRecoverStart(outcome, t1)
    \/ AutoRecoverCheckAuth
    \/ \E outcome \in RecoveryOutcomes : AutoRecoverAttempt(outcome)
    \/ \E t \in TimePoints : Tick(t)
    \/ SessionFileChange

SpecSession == InitSession /\ [][NextSession]_vars

\* C3: validate_session reports its outcome as a boolean: it returns True if
\* the session is valid and False otherwise (no auth files, session expired,
\* the agent run fails), rather than terminating with an exception.
C3_ValidateReturnsBoolean ==
    vs_last.op = "validate_session" =>
        /\ vs_last.end = "return"
        /\ ~vs_last.auth => ~vs_last.value

\* C4: auto_recover_session returns True if recovery succeeds and False if
\* manual login is needed: with an auth file it runs the three recovery
\* configurations in their listed order, returns True at the first attempt
\* that reports RECOVERY_SUCCESS and False after all three have failed; no
\* exception escapes it.
C4_AutoRecoverReturnsBoolean ==
    ar_pc = "done" =>
        /\ ar_result \in {"True", "False"}
        /\ ar_tried = SubSeq(recovery_configs, 1, Len(ar_tried))
        /\ (ar_result = "False" /\ ar_auth # NoKwargs) => ar_tried = recovery_configs

\* C14: _get_auth_config returns {'storage_state': path} when the manager's
\* storage-state file exists, otherwise {'cookies_file': path} when the
\* legacy cookies file exists, otherwise the empty dict, never both keys; the
\* storage-state path it checks is the verified file if and only if that
\* file existed when the manager was constructed.
C14_AuthConfig ==
    LET r == get_auth_config(storage_state_path, verified_exists, regular_exists,
                             legacy_exists)
        checked == IF sm_verified_at_init THEN "verified" ELSE "regular"
        checked_exists == IF sm_verified_at_init THEN verified_exists ELSE regular_exists
    IN  /\ storage_state_path = "verified" <=> sm_verified_at_init
        /\ checked_exists => r = ("storage_state" :> checked)
        /\ (~checked_exists /\ legacy_exists) => r = ("cookies_file" :> "legacy")
        /\ (~checked_exists /\ ~legacy_exists) => DOMAIN r = {}
        /\ Cardinality(DOMAIN r) <= 1
        /\ ar_pc = "attempt" => DOMAIN ar_auth \in {{"storage_state"}, {"cookies_file"}}

\* auto_recover_session got the legacy cookies from _get_auth_config while
\* the verified file, written after the manager was constructed, exists
C14_Witness ==
    /\ ar_pc = "attempt"
    /\ ar_auth = ("cookies_file" :> "legacy")
    /\ ~sm_verified_at_init
    /\ verified_exists
    /\ ~regular_exists
    /\ legacy_exists

\* C7: after a successful validate_session, a call made less than
\* validation_interval later while an auth file exists returns True without
\* running a browser agent; a call made validation_interval or more later
\* runs the agent again; only successful validations set last_validation; a
\* call with no auth file returns False regardless of the cache.
C7_ValidationCache ==
    vs_last.op = "validate_session" =>
        LET fresh == vs_last.elapsed # <<>> /\ vs_last.elapsed[1] < 300
        IN  /\ (vs_last.auth /\ fresh) =>
                  (vs_last.end = "return" /\ vs_last.value /\ ~vs_last.agent)
            /\ (vs_last.auth /\ ~fresh) => vs_last.agent
            /\ vs_last.cached =>
                  (vs_last.agent /\ vs_last.end = "return" /\ vs_last.value)
            /\ ~vs_last.auth =>
                  (vs_last.end = "return" /\ ~vs_last.value /\ ~vs_last.agent
                   /\ ~vs_last.cached)
            /\ (last_validation = <<>>) => (vs_last.elapsed = <<>> /\ ~vs_last.cached)

\* a call 299 seconds after a successful validation is answered from the cache
C7_Witness ==
    /\ vs_last.op = "validate_session"
    /\ vs_last.auth
    /\ vs_last.elapsed = <<299>>
    /\ vs_last.value
    /\ ~vs_last.agent

----------------------------------------------------------------------------
\* main.py, main_controller.py: the search ID and the Apollo URL.  Here a str
\* is a sequence of characters and of fixed chunks of text that hold no run
\* of hexadecimal digits.

\* [a-f0-9]
HexDigits ==
    {"0", "1", "2", "3", "4", "5", "6", "7", "8", "9", "a", "b", "c", "d", "e", "f"}

\* {24}
SearchIdLength == 24

\* [a-f0-9]{24} matches at position i of s
HexRunAt(s, i) ==
    /\ i >= 1
    /\ i + SearchIdLength - 1 <= Len(s)
    /\ \A j \in i..(i + SearchIdLength - 1) : s[j] \in HexDigits

\* the least element of a non-empty set of positions
Least(S) == CHOOSE i \in S : \A j \in S : i <= j

\* re.search(r'([a-f0-9]{24})', s): group(1) of the leftmost match, or None
SearchHexRun(s) ==
    LET at == { i \in 1..Len(s) : HexRunAt(s, i) }
    IN  IF at = {} THEN None
        ELSE Some(SubSeq(s, Least(at), Least(at) + SearchIdLength - 1))

\* re.search(r'search ID: ([a-f0-9]{24})', s): group(1) of the leftmost match, or None
SearchLabelledHexRun(s) ==
    LET at == { i \in 1..Len(s) : s[i] = "search ID: " /\ HexRunAt(s, i + 1) }
    IN  IF at = {} THEN None
        ELSE Some(SubSeq(s, Least(at) + 1, Least(at) + SearchIdLength))

\* main.py: search_id_match
MainSearchIdMatch(result_str) == SearchHexRun(result_str)

\* the labelled pattern left out
ControllerSearchIdMatch_FirstRun(result_str) == SearchHexRun(result_str)

\* main_controller.py: search_id_match
ControllerSearchIdMatch(result_str) ==
    IF SearchLabelledHexRun(result_str) # None
    THEN SearchLabelledHexRun(result_str)
    ELSE SearchHexRun(result_str)

\* urllib.parse.quote(title), for titles of letters and spaces
RECURSIVE quote(_)
quote(title) ==
    IF title = <<>> THEN <<>>
    ELSE (IF Head(title) = " " THEN <<"%", "2", "0">> ELSE <<Head(title)>>)
         \o quote(Tail(title))

\* "".join(f"&personTitles[]={quote(title)}" for title in titles)
RECURSIVE PersonTitles(_)
PersonTitles(titles) ==
    IF titles = <<>> THEN <<>>
    ELSE <<"&personTitles[]=">> \o quote(Head(titles)) \o PersonTitles(Tail(titles))

\* apollo_url = "https://app.apollo.io/#/people?page=1&...&qOrganizationSearchListId={search_id}"
\* followed by the job titles
ApolloUrl(search_id, titles) ==
    <<"https://", "app", ".", "apollo", ".", "io", "/#", "/people", "?",
      "page=1&sortAscending=false&sortByField=%5Bnone%5D", "&",
      "qOrganizationSearchListId", "=">> \o search_id \o PersonTitles(titles)

\* JOB_TITLES of main.py
MainJobTitles == << <<"C", "E", "O">>, <<"C", "T", "O">> >>

\* JOB_TITLES of main_controller.py
ControllerJobTitles ==
    << <<"C", "E", "O">>, <<"C", "T", "O">>, <<"C", "F", "O">>,
       <<"V", "P", " ", "S", "a", "l", "e", "s">>,
       <<"V", "P", " ", "M", "a", "r", "k", "e", "t", "i", "n", "g">> >>

ApifyTokenSet_Always(token) == TRUE

\* if APIFY_TOKEN: os.getenv gives None or a str, and the empty str is false
ApifyTokenSet(token) == token # None /\ token[1] # ""

\* c repeated n times
Rep(c, n) == [i \in 1..n |-> c]

IdA == Rep("a", SearchIdLength)

IdB == [i \in 1..SearchIdLength |->
          <<"0", "1", "2", "3", "4", "5", "6", "7", "8", "9", "a", "b", "c", "d", "e", "f">>[((i - 1) % 16) + 1]]

\* What the search agent's run gives: a result whose str is the text, or an
\* exception.
SearchResultTexts ==
    { <<"Extracted ", "search ID: ">> \o IdB,
      IdA \o <<" ", "search ID: ">> \o IdB,
      <<"search ID: ">> \o Rep("b", SearchIdLength - 1) \o <<" ">> \o IdA,
      <<"Final URL: ">> \o ApolloUrl(IdA, MainJobTitles),
      Rep("c", SearchIdLength + 1),
      Rep("b", SearchIdLength - 1) \o <<"-">> \o Rep("b", SearchIdLength - 1),
      Rep("A", SearchIdLength),
      IdA \o <<" ", "Search ID: ">> \o IdB,
      <<"no search ID found">> }

SearchOutcomes ==
    { [kind |-> "text", text |-> t] : t \in SearchResultTexts }
    \cup { [kind |-> "raise", text |-> <<>>] }

\* What capture_new_session's agent run gives
CaptureOutcomes ==
    { [kind |-> "text", text |-> t] :
        t \in {<<"LOGIN_COMPLETE">>, <<"login_complete">>, <<"login form">>} }
    \cup { [kind |-> "raise", text |-> <<>>] }

\* capture_new_session(): True when the result says LOGIN_COMPLETE, False
\* otherwise and on any Exception
capture_new_session(outcome) ==
    outcome.kind = "text" /\ Contains(Upper(outcome.text), <<"LOGIN_COMPLETE">>)

\* main.py: is_valid = True ("TEMPORARY: Skip validation")
is_valid == TRUE

\* a script about to be run
InitPipeline ==
    /\ pl_script \in {"main", "controller"}
    /\ pl_pc = "start"
    /\ csv_exists \in BOOLEAN
    /\ apify_token \in {None, Some(""), Some("apify_api_token")}
    /\ pl_auth = NoKwargs
    /\ pl_result = None
    /\ pl_search_id = None
    /\ apify_calls = <<>>
    /\ pl_end = "none"
    /\ pl_validations = 0
    /\ pl_agent_started = FALSE
    /\ verified_exists \in BOOLEAN
    /\ regular_exists \in BOOLEAN
    /\ legacy_exists \in BOOLEAN
    /\ now = 0
    /\ storage_state_path = "regular"
    /\ sm_verified_at_init = FALSE
    /\ last_validation = None
    /\ vs_last = NoCall
    /\ ar_pc = "idle"
    /\ ar_auth = NoKwargs
    /\ ar_i = 0
    /\ ar_tried = <<>>
    /\ ar_result = "none"
    /\ IdleErrorHandler
    /\ IdleWrapper
    /\ IdleMonitor
    /\ IdleOthers

\* main() returns, or an exception leaves it
PipelineEnds(how) ==
    /\ pl_pc' = "done"
    /\ pl_end' = how

\* main.py, from "Validate session before proceeding" to the creation of the
\* search agent.  The recovery branch is taken only when is_valid is false:
\* auto_recover_session and then capture_new_session, each with any result.
MainAfterAuthentication(auth_config) ==
    IF ~is_valid
    THEN \E recovered \in BOOLEAN, success \in BOOLEAN :
            /\ pl_validations' = pl_validations + 1
            /\ IF ~recovered /\ ~success
               THEN PipelineEnds("returned")
                    /\ UNCHANGED <<pl_auth, pl_agent_started>>
               ELSE /\ pl_pc' = "agent"
                    /\ pl_agent_started' = TRUE
                    /\ pl_auth' = auth_config
                    /\ UNCHANGED pl_end
    ELSE IF auth_config = NoKwargs
         THEN PipelineEnds("returned")
              /\ UNCHANGED <<pl_auth, pl_agent_started, pl_validations>>
         ELSE /\ pl_pc' = "agent"
              /\ pl_agent_started' = TRUE
              /\ pl_auth' = auth_config
              /\ UNCHANGED <<pl_end, pl_validations>>

\* main.py main(): up to the first await.  csv_ok: pd.read_csv gives the
\* domain column.
MainStart(csv_ok) ==
    /\ pl_script = "main"
    /\ pl_pc = "start"
    /\ IF ~csv_exists
       THEN PipelineEnds("returned")
            /\ UNCHANGED <<pl_auth, pl_agent_started, pl_validations, storage_state_path,
                           sm_verified_at_init>>
       ELSE IF ~csv_ok
       THEN PipelineEnds("raised")
            /\ UNCHANGED <<pl_auth, pl_agent_started, pl_validations, storage_state_path,
                           sm_verified_at_init>>
       ELSE /\ storage_state_path' = ChooseStoragePath(verified_exists)
            /\ sm_verified_at_init' = verified_exists
            /\ LET auth_config == get_auth_config(storage_state_path', verified_exists,
                                                  regular_exists, legacy_exists)
               IN  IF auth_config = NoKwargs
                   THEN /\ pl_pc' = "capture"
                        /\ UNCHANGED <<pl_auth, pl_agent_started, pl_validations, pl_end>>
                   ELSE MainAfterAuthentication(auth_config)
    /\ UNCHANGED <<pl_script, csv_exists, apify_token, pl_result, pl_search_id, apify_calls>>
    /\ UNCHANGED <<fsVars, now, last_validation, vs_last, ar_pc, ar_auth, ar_i, ar_tried,
                   ar_result, notPlVars>>

\* main.py main(): from the return of the first capture_new_session()
MainCaptured(outcome) ==
    /\ pl_script = "main"
    /\ pl_pc = "capture"
    /\ IF ~capture_new_session(outcome)
       THEN PipelineEnds("returned")
            /\ UNCHANGED <<pl_auth, pl_agent_started, pl_validations>>
       ELSE MainAfterAuthentication(
                get_auth_config(storage_state_path, verified_exists,
                                regular_exists, legacy_exists))
    /\ UNCHANGED <<pl_script, csv_exists, apify_token, pl_result, pl_search_id, apify_calls>>
    /\ UNCHANGED <<fsVars, now, smVars, notPlVars>>

\* main.py main(): from the return of agent.run to the end
MainAgentDone(outcome) ==
    /\ pl_script = "main"
    /\ pl_pc = "agent"
    /\ IF outcome.kind = "raise"
       THEN /\ PipelineEnds("raised")
            /\ UNCHANGED <<pl_result, pl_search_id, apify_calls>>
       ELSE LET search_id_match == MainSearchIdMatch(outcome.text)
            IN  /\ pl_result' = Some(outcome.text)
                /\ pl_search_id' = search_id_match
                /\ PipelineEnds("returned")
                /\ IF search_id_match # None /\ ApifyTokenSet(apify_token)
                   THEN apify_calls' =
                          Append(apify_calls, ApolloUrl(search_id_match[1], MainJobTitles))
                   ELSE UNCHANGED apify_calls
    /\ UNCHANGED <<pl_script, csv_exists, apify_token, pl_auth, pl_validations,
                   pl_agent_started>>
    /\ UNCHANGED <<fsVars, now, smVars, notPlVars>>

\* main_controller.py main(): up to the await of agent.run
ControllerStart ==
    /\ pl_script = "controller"
    /\ pl_pc = "start"
    /\ IF ~csv_exists
       THEN PipelineEnds("returned")
            /\ UNCHANGED <<pl_auth, pl_agent_started, storage_state_path,
                           sm_verified_at_init>>
       ELSE /\ storage_state_path' = ChooseStoragePath(verified_exists)
            /\ sm_verified_at_init' = verified_exists
            /\ LET auth_config == get_auth_config(storage_state_path', verified_exists,
                                                  regular_exists, legacy_exists)
               IN  IF auth_config = NoKwargs
                   THEN PipelineEnds("returned")
                        /\ UNCHANGED <<pl_auth, pl_agent_started>>
                   ELSE /\ pl_pc' = "agent"
                        /\ pl_agent_started' = TRUE
                        /\ pl_auth' = auth_config
                        /\ UNCHANGED pl_end
    /\ UNCHANGED <<pl_script, csv_exists, apify_token, pl_result, pl_search_id, apify_calls,
                   pl_validations>>
    /\ UNCHANGED <<fsVars, now, last_validation, vs_last, ar_pc, ar_auth, ar_i, ar_tried,
                   ar_result, notPlVars>>

\* main_controller.py main(): from the return of agent.run to the end, with
\* run_apify_scraper.  csv_ok: pd.read_csv gives the domain column; every
\* Exception of the try block ends main() normally.
ControllerAgentDone(outcome, csv_ok) ==
    /\ pl_script = "controller"
    /\ pl_pc = "agent"
    /\ PipelineEnds("returned")
    /\ IF outcome.kind = "raise"
       THEN UNCHANGED <<pl_result, pl_search_id, apify_calls>>
       ELSE LET search_id_match == ControllerSearchIdMatch(outcome.text)
            IN  /\ pl_result' = Some(outcome.text)
                /\ pl_search_id' = search_id_match
                /\ IF search_id_match # None /\ csv_ok /\ ApifyTokenSet(apify_token)
                   THEN apify_calls' =
                          Append(apify_calls,
                                 ApolloUrl(search_id_match[1], ControllerJobTitles))
                   ELSE UNCHANGED apify_calls
    /\ UNCHANGED <<pl_script, csv_exists, apify_token, pl_auth, pl_validations,
                   pl_agent_started>>
    /\ UNCHANGED <<fsVars, now, smVars, notPlVars>>

\* while capture_new_session waits for the login, session files may be written
CaptureWritesFile ==
    /\ pl_pc = "capture"
    /\ FileChange
    /\ UNCHANGED plVars

Init == InitPipeline

Next ==
    \/ \E csv_ok \in BOOLEAN : MainStart(csv_ok)
    \/ \E outcome \in CaptureOutcomes : MainCaptured(outcome)
    \/ \E outcome \in SearchOutcomes : MainAgentDone(outcome)
    \/ ControllerStart
    \/ \E outcome \in SearchOutcomes, csv_ok \in BOOLEAN : ControllerAgentDone(outcome, csv_ok)
    \/ CaptureWritesFile

Spec == Init /\ [][Next]_vars

\* C5: in both pipelines the Apify actor is called at most once per run, only
\* after a search ID has been extracted from the agent's result and only when
\* APIFY_TOKEN is set, and the URL sent holds that search ID as its
\* qOrganizationSearchListId; when no search ID is found the run ends without
\* any Apify call.
C5_ApifyOnceWithSearchId ==
    /\ Len(apify_calls) <= 1
    /\ apify_calls # <<>> =>
          /\ pl_agent_started
          /\ pl_result # <<>>
          /\ pl_search_id # <<>>
          /\ Len(pl_search_id[1]) = 24
          /\ Contains(pl_result[1], pl_search_id[1])
          /\ Contains(apify_calls[1],
                      <<"qOrganizationSearchListId", "=">> \o pl_search_id[1])
          /\ apify_token # <<>>
          /\ apify_token[1] # ""
    /\ (pl_pc = "done" /\ pl_search_id = <<>>) => apify_calls = <<>>

\* the controller pipeline has called Apify with the ID that follows the label
C5_Witness ==
    /\ pl_script = "controller"
    /\ pl_pc = "done"
    /\ Len(apify_calls) = 1
    /\ pl_result = <<IdA \o <<" ", "search ID: ">> \o IdB>>
    /\ pl_search_id = <<IdB>>

\* the positions of a result string where 24 hexadecimal characters start
C16_Runs(t) ==
    { i \in 1..Len(t) : \A j \in 0..23 : i + j <= Len(t) /\ t[i + j] \in HexDigits }

\* the search ID the claim names for a script and a result string
C16_Expected(script, t) ==
    LET runs == C16_Runs(t)
        labelled == { i \in runs : i > 1 /\ t[i - 1] = "search ID: " }
        from == IF script = "controller" /\ labelled # {} THEN labelled ELSE runs
        first == CHOOSE i \in from : \A j \in from : i <= j
    IN  IF runs = {} THEN <<>> ELSE <<SubSeq(t, first, first + 23)>>

\* C16: the search ID that main.py and main_controller.py place in the
\* Apify URL is exactly 24 lowercase hexadecimal characters taken from the
\* agent's result string; main_controller.py uses the run that follows
\* 'search ID: ' when there is one and only otherwise the first run anywhere
\* in the result, and main.py uses the first run.
C16_SearchIdIsHexRun ==
    pl_result # <<>> =>
        /\ pl_search_id = C16_Expected(pl_script, pl_result[1])
        /\ pl_search_id # <<>> =>
              /\ Len(pl_search_id[1]) = 24
              /\ \A i \in 1..24 : pl_search_id[1][i] \in HexDigits
              /\ Contains(pl_result[1], pl_search_id[1])
        /\ \A k \in 1..Len(apify_calls) :
              /\ pl_search_id # <<>>
              /\ \E i \in 1..Len(apify_calls[k]) :
                    /\ apify_calls[k][i] = "qOrganizationSearchListId"
                    /\ SubSeq(apify_calls[k], i + 2, i + 25) = pl_search_id[1]
                    /\ Len(apify_calls[k]) >= i + 26
                    /\ apify_calls[k][i + 26] = "&personTitles[]="

\* main_controller.py has sent the first run of a result whose label is not
\* followed by 24 hexadecimal characters
C16_Witness ==
    /\ pl_script = "controller"
    /\ pl_pc = "done"
    /\ pl_result = <<(<<"search ID: ">> \o Rep("b", SearchIdLength - 1) \o <<" ">> \o IdA)>>
    /\ pl_search_id = <<IdA>>
    /\ Len(apify_calls) = 1

\* C6: main.py validates the Apollo session before the search agent is
\* started, so the search agent never runs on a session that was not
\* validated, recovered or re-captured.
C6_ValidatedBeforeSearch ==
    (pl_script = "main" /\ pl_agent_started) => pl_validations > 0

----------------------------------------------------------------------------
\* monitoring.py: ApolloMonitoringSystem

\* self.apollo_state_map, in the order of its items()
apollo_state_map ==
    << <<"/login", "authentication_page">>,
       <<"/people", "people_search">>,
       <<"/contacts", "contacts_page">>,
       <<"/companies", "companies_page">>,
       <<"/sequences", "sequences_page">>,
       <<"qOrganizationSearchListId", "filtered_search">> >>

\* _detect_apollo_state(url): the state of the first pattern found in url, or None
detect_apollo_state(url) ==
    LET hits == { i \in 1..Len(apollo_state_map) :
                    Contains(url, <<apollo_state_map[i][1]>>) }
    IN  IF hits = {} THEN None ELSE Some(apollo_state_map[Least(hits)][2])

\* _validate_state_transitions(page): the state detected and the message
\* logged.  found: a query_selector of the state's indicators gives an
\* element; raises: a query_selector raises.
validate_state_transitions(url, found, raises) ==
    LET current_state == detect_apollo_state(url)
    IN  [op |-> "validate_state_transitions", url |-> url, state |-> current_state,
         log |-> IF current_state = None THEN "none"
                 ELSE IF current_state[1] = "filtered_search"
                      THEN (IF raises THEN "State transition validation failed"
                            ELSE IF found THEN "Search filters successfully applied"
                            ELSE "In filtered search state but no filter indicators found")
                 ELSE IF current_state[1] = "people_search"
                      THEN (IF raises THEN "State transition validation failed"
                            ELSE IF found THEN "none"
                            ELSE "In people search state but search UI not detected")
                 ELSE "none"]

\* The pages a step may end on: a host, a path under the fragment, a query.
MonitorHosts ==
    { <<"app", ".", "apollo", ".", "io">>,
      <<"accounts", ".", "google", ".", "com">>,
      <<"www", ".", "example", ".", "com">> }

MonitorPaths == {"/login", "/people", "/contacts", "/companies", "/sequences", "/home"}

MonitorQueries ==
    { <<>>,
      <<"?", "page=1">>,
      <<"?", "page=1", "&", "qOrganizationSearchListId", "=">> \o IdA,
      <<"?", "qOrganizationSearchListId", "=">> \o IdB }

MonitorUrls ==
    { <<"https://">> \o h \o <<"/#", p>> \o q :
        h \in MonitorHosts, p \in MonitorPaths, q \in MonitorQueries }
    \cup { <<"https://">> \o h \o <<"/#">> \o q : h \in MonitorHosts, q \in MonitorQueries }
    \cup { ApolloUrl(IdA, MainJobTitles), ApolloUrl(IdB, ControllerJobTitles) }

\* a step of the agent has ended on some page
InitMonitor ==
    /\ mon_url \in MonitorUrls
    /\ mon_last = NoCall
    /\ IdleErrorHandler
    /\ IdleWrapper
    /\ IdleSession
    /\ IdlePipeline
    /\ IdleOthers

\* await self._validate_state_transitions(page)
ValidateStateTransitions(found, raises) ==
    /\ mon_last = NoCall
    /\ mon_last' = validate_state_transitions(mon_url, found, raises)
    /\ UNCHANGED <<mon_url, notMonVars>>

NextMonitor == \E found \in BOOLEAN, raises \in BOOLEAN : ValidateStateTransitions(found, raises)

SpecMonitor == InitMonitor /\ [][NextMonitor]_vars

\* C10: every URL that contains 'qOrganizationSearchListId', the people-search
\* URLs the pipeline produces included, is reported as 'filtered_search'.
C10_FilteredSearchDetected ==
    (mon_last.op = "validate_state_transitions"
     /\ Contains(mon_last.url, <<"qOrganizationSearchListId">>))
        => mon_last.state = <<"filtered_search">>

----------------------------------------------------------------------------
\* monitoring.py: the domain check and the step hooks

\* allowed_domains of _is_allowed_domain
allowed_domains ==
    << <<"apollo", ".", "io">>,
       <<"google", ".", "com">>,
       <<"googleusercontent", ".", "com">> >>

\* the tokens that end the netloc of a URL
NetlocEnd == {"/", "/#", "?", "#"}

\* urlparse(url).netloc: what follows "//" up to the first "/", "?" or "#";
\* empty when the URL has no "//"
urlparse_netloc(url) ==
    IF url = <<>> \/ Head(url) \notin {"https://", "http://"} THEN <<>>
    ELSE LET ends == { i \in 2..Len(url) : url[i] \in NetlocEnd }
         IN  IF ends = {} THEN Tail(url) ELSE SubSeq(url, 2, Least(ends) - 1)

\* _is_allowed_domain(url): one of the allowed domains is a substring of the
\* lower-cased netloc
is_allowed_domain(url) ==
    LET domain == Lower(urlparse_netloc(url))
    IN  \E k \in 1..Len(allowed_domains) : Contains(domain, allowed_domains[k])

\* How an awaited call on the page or the browser session ends: it returns,
\* raises an exception that derives from Exception (a Playwright error), or
\* raises one that does not (asyncio.CancelledError, KeyboardInterrupt).
Awaits == {"ok", "Exception", "BaseException"}

ExceptCatches_Nothing(raised) == FALSE

\* "except Exception" takes the exception raised
ExceptCatches(raised) == raised = "Exception"

\* how a hook ends when the exception reaches its outermost try
HookEnd(raised) == IF ExceptCatches(raised) THEN "return" ELSE "raise"

\* an entry of self.metrics["security_alerts"]
SecurityAlert(type, url, step) == [type |-> type, url |-> url, step |-> step]

\* _security_monitor(page, url): the alerts afterwards and whether an
\* exception leaves it.  page.found: the kinds of indicator present.
security_monitor(alerts, url, page) ==
    IF page.query_selector = "ok"
    THEN LET a1 == IF "cloudflare" \in page.found
                   THEN Append(alerts, SecurityAlert("cloudflare_detected", url, None))
                   ELSE alerts
             a2 == IF "rate_limit" \in page.found
                   THEN Append(a1, SecurityAlert("rate_limit_detected", url, None))
                   ELSE a1
         IN  [alerts |-> a2, end |-> "return"]
    ELSE [alerts |-> alerts,
          end |-> IF ExceptCatches(page.query_selector) THEN "return" ELSE "raise"]

\* step_start_monitor(agent): steps_executed and security_alerts afterwards,
\* how the hook ends and whether the domain validation was reached.  The
\* metrics that no hook reads back (pages_visited, navigation_history,
\* apollo_states_encountered, performance_data) are left out.
step_start_monitor(steps, alerts, url, page) ==
    LET n == steps + 1
        stop(raised) == [steps |-> n, alerts |-> alerts, end |-> HookEnd(raised),
                         checked |-> FALSE]
    IN  IF page.get_current_page # "ok" THEN stop(page.get_current_page)
        ELSE IF page.evaluate # "ok" /\ ~ExceptCatches(page.evaluate)
             THEN stop(page.evaluate)
        ELSE LET sec == security_monitor(alerts, url, page)
             IN  IF sec.end = "raise"
                 THEN [steps |-> n, alerts |-> sec.alerts, end |-> "raise",
                       checked |-> FALSE]
                 ELSE [steps |-> n,
                       alerts |-> IF ~is_allowed_domain(url)
                                  THEN Append(sec.alerts,
                                              SecurityAlert("unauthorized_navigation",
                                                            url, Some(n)))
                                  ELSE sec.alerts,
                       end |-> "return",
                       checked |-> TRUE]

\* _detect_and_handle_errors(page, agent): errors_detected afterwards and
\* whether an exception leaves it.  page.error_elements: the selectors that
\* give an element with text; each takes an error screenshot.
detect_and_handle_errors(errors, page) ==
    IF page.query_selector # "ok"
    THEN [errors |-> errors,
          end |-> IF ExceptCatches(page.query_selector) THEN "return" ELSE "raise"]
    ELSE IF page.error_elements > 0 /\ page.screenshot # "ok"
            /\ ~ExceptCatches(page.screenshot)
         THEN [errors |-> errors + 1, end |-> "raise"]
    ELSE [errors |-> errors + page.error_elements,
          end |-> IF page.evaluate = "ok" \/ ExceptCatches(page.evaluate)
                  THEN "return" ELSE "raise"]

\* _conditional_screenshot(page, agent): should_screenshot
should_screenshot(errors, alerts, url) ==
    \/ errors > 0
    \/ detect_apollo_state(url) \in {Some("filtered_search"), Some("authentication_page")}
    \/ Len(alerts) > 0

\* step_end_monitor(agent): errors_detected afterwards and how the hook ends
step_end_monitor(errors, alerts, url, page) ==
    IF page.get_current_page # "ok"
    THEN [errors |-> errors, end |-> HookEnd(page.get_current_page)]
    ELSE LET det == detect_and_handle_errors(errors, page)
         IN  IF det.end = "raise" THEN det
             ELSE IF should_screenshot(det.errors, alerts, url)
                     /\ page.screenshot # "ok" /\ ~ExceptCatches(page.screenshot)
                  THEN [errors |-> det.errors, end |-> "raise"]
             ELSE IF page.evaluate # "ok" /\ ~ExceptCatches(page.evaluate)
                  THEN [errors |-> det.errors, end |-> "raise"]
             ELSE [errors |-> det.errors, end |-> "return"]

\* the steps an agent makes in one run
MaxSteps == 2

\* the netlocs of the pages a step may be on
HookNetlocs ==
    { <<"app", ".", "apollo", ".", "io">>,
      <<"apollo", ".", "io">>,
      <<"APOLLO", ".", "IO">>,
      <<"app", ".", "apollo", ".", "io", ":", "8443">>,
      <<"accounts", ".", "google", ".", "com">>,
      <<"lh3", ".", "googleusercontent", ".", "com">>,
      <<"www", ".", "example", ".", "com">>,
      <<"evil", "apollo", ".", "io">>,
      <<"apollo", ".", "io", ".", "evil", ".", "com">>,
      <<"apollo", ".", "io", "@", "evil", ".", "com">> }

HookUrls ==
    { <<"https://">> \o h \o <<"/#", "/people">> : h \in HookNetlocs }
    \cup { <<"https://", "evil", ".", "com", "/", "?", "next", "=", "apollo", ".", "io">>,
           <<"https://", "app", ".", "apollo", ".", "io", "/#", "/login">>,
           <<"about:", "blank">>,
           ApolloUrl(IdA, MainJobTitles) }

\* what the page does during step_start_monitor
StartPages ==
    [get_current_page : Awaits, evaluate : Awaits, query_selector : Awaits,
     found : SUBSET {"cloudflare", "rate_limit"}]

\* what the page does during step_end_monitor
EndPages ==
    [get_current_page : Awaits, evaluate : Awaits, query_selector : Awaits,
     screenshot : Awaits, error_elements : 0..1]

PageRaises(page, raised) ==
    \E op \in DOMAIN page \ {"found", "error_elements"} : page[op] = raised

\* create_apollo_monitoring_hooks(): a new monitoring system, the agent on
\* some page
InitHooks ==
    /\ mon_url \in HookUrls
    /\ mon_last = NoCall
    /\ steps_executed = 0
    /\ errors_detected = 0
    /\ security_alerts = <<>>
    /\ hk_last = NoCall
    /\ IdleErrorHandler
    /\ IdleWrapper
    /\ IdleSession
    /\ IdlePipeline
    /\ IdleConfig
    /\ IdleCloudflare
    /\ IdleFetch

\* await on_step_start(agent)
StepStartMonitor(page) ==
    /\ hk_last.op # "step_start_monitor"
    /\ hk_last.op # "none" => hk_last.end = "return"
    /\ steps_executed < MaxSteps
    /\ LET r == step_start_monitor(steps_executed, security_alerts, mon_url, page)
       IN  /\ steps_executed' = r.steps
           /\ security_alerts' = r.alerts
           /\ hk_last' = [op |-> "step_start_monitor", end |-> r.end,
                          checked |-> r.checked, steps_before |-> steps_executed,
                          failed |-> PageRaises(page, "Exception"),
                          base |-> PageRaises(page, "BaseException")]
    /\ UNCHANGED <<errors_detected, notHkVars>>

\* await on_step_end(agent)
StepEndMonitor(page) ==
    /\ hk_last.op = "step_start_monitor"
    /\ hk_last.end = "return"
    /\ LET r == step_end_monitor(errors_detected, security_alerts, mon_url, page)
       IN  /\ errors_detected' = r.errors
           /\ hk_last' = [op |-> "step_end_monitor", end |-> r.end,
                          checked |-> FALSE, steps_before |-> steps_executed,
                          failed |-> PageRaises(page, "Exception"),
                          base |-> PageRaises(page, "BaseException")]
    /\ UNCHANGED <<steps_executed, security_alerts, notHkVars>>

NextHooks ==
    \/ \E page \in StartPages : StepStartMonitor(page)
    \/ \E page \in EndPages : StepEndMonitor(page)

SpecHooks == InitHooks /\ [][NextHooks]_vars

\* the host of a URL: its netloc without the user information and the port
C11_Host(url) ==
    LET netloc == Lower(urlparse_netloc(url))
        ats == { i \in 1..Len(netloc) : netloc[i] = "@" }
        hostport == IF ats = {} THEN netloc
                    ELSE SubSeq(netloc, (CHOOSE i \in ats : \A j \in ats : j <= i) + 1,
                                Len(netloc))
        colons == { i \in 1..Len(hostport) : hostport[i] = ":" }
    IN  IF colons = {} THEN hostport ELSE SubSeq(hostport, 1, Least(colons) - 1)

\* the host is an allowed domain or a subdomain of one
C11_HostAllowed(url) ==
    LET host == C11_Host(url)
    IN  \E k \in 1..Len(allowed_domains) :
            \/ host = allowed_domains[k]
            \/ /\ Len(host) > Len(allowed_domains[k])
               /\ SubSeq(host, Len(host) - Len(allowed_domains[k]), Len(host))
                    = <<".">> \o allowed_domains[k]

\* C11: _is_allowed_domain returns True exactly when the URL's host is
\* apollo.io, google.com or googleusercontent.com or a subdomain of one of
\* them, and for every other host step_start_monitor appends an
\* 'unauthorized_navigation' entry to security_alerts.
C11_AllowedDomainIsHostOrSubdomain ==
    (hk_last.op = "step_start_monitor" /\ hk_last.checked) =>
        /\ is_allowed_domain(mon_url) <=> C11_HostAllowed(mon_url)
        /\ ~C11_HostAllowed(mon_url) =>
              \E k \in 1..Len(security_alerts) :
                  security_alerts[k] = SecurityAlert("unauthorized_navigation", mon_url,
                                                     Some(steps_executed))

\* C15 as stated: whatever the page or the browser session does, each hook
\* returns normally, and step_start_monitor has incremented steps_executed
\* by exactly one.
C15_Original ==
    hk_last.op \in {"step_start_monitor", "step_end_monitor"} =>
        /\ hk_last.end = "return"
        /\ hk_last.op = "step_start_monitor" => steps_executed = hk_last.steps_before + 1

\* C15: the hooks never propagate an exception that derives from Exception:
\* when no call on the page or the browser session raises an exception
\* outside Exception (asyncio.CancelledError, KeyboardInterrupt), each hook
\* returns normally whatever else fails; such an exception is the only one
\* that leaves a hook; and step_start_monitor has incremented steps_executed
\* by exactly one in every case.
C15_HooksSwallowExceptions ==
    hk_last.op \in {"step_start_monitor", "step_end_monitor"} =>
        /\ ~hk_last.base => hk_last.end = "return"
        /\ hk_last.end = "raise" => hk_last.base
        /\ hk_last.op = "step_start_monitor" => steps_executed = hk_last.steps_before + 1
        /\ hk_last.op = "step_end_monitor" => steps_executed = hk_last.steps_before

\* both hooks have returned from a step in which a call on the page raised
C15_Witness ==
    /\ hk_last.op = "step_end_monitor"
    /\ hk_last.failed
    /\ ~hk_last.base
    /\ hk_last.end = "return"
    /\ steps_executed = MaxSteps

----------------------------------------------------------------------------
\* config.py: ApolloConfigManager.  The settings are held by section; of
\* each section the attributes that the environment maps or the validation
\* reads are modelled.  A float setting is held in tenths.  The value of a
\* str setting and of an environment variable is a str (a token sequence).

\* BrowserConfiguration(), ApolloConfiguration(), ApifyConfiguration(),
\* SecurityConfiguration(), LoggingConfiguration()
DefaultSettings ==
    [browser  |-> [headless |-> FALSE, stealth |-> TRUE,
                   viewport_width |-> 1920, viewport_height |-> 1080,
                   wait_for_network_idle |-> 100],
     apollo   |-> [max_contacts |-> 200,
                   job_titles |-> << <<"CEO">>, <<"CTO">>, <<"CFO">>,
                                     <<"VP Sales">>, <<"VP Marketing">> >>,
                   request_delay |-> 20, max_retries |-> 3],
     apify    |-> [actor_id |-> <<"jljBwyyQakqrL1wae">>, timeout |-> 300,
                   memory_mb |-> 1024],
     security |-> [enable_encryption |-> TRUE, session_timeout_minutes |-> 30],
     logging  |-> [log_level |-> <<"INFO">>, log_directory |-> <<"logs">>,
                   enable_file_logging |-> TRUE]]

\* load_from_file(): every key of a section of the file that is an attribute
\* of the section's configuration is set to the file's value; a file that
\* cannot be read or parsed changes nothing
load_from_file(settings, file) ==
    IF file.kind # "json" THEN settings
    ELSE [sec \in DOMAIN settings |->
            [key \in DOMAIN settings[sec] |->
                IF sec \in DOMAIN file.data /\ key \in DOMAIN file.data[sec]
                THEN file.data[sec][key]
                ELSE settings[sec][key]]]

\* env_mappings: variable, section, key, value_type
env_mappings ==
    << <<"APOLLO_HEADLESS", "browser", "headless", "bool">>,
       <<"APOLLO_STEALTH", "browser", "stealth", "bool">>,
       <<"APOLLO_VIEWPORT_WIDTH", "browser", "viewport_width", "int">>,
       <<"APOLLO_VIEWPORT_HEIGHT", "browser", "viewport_height", "int">>,
       <<"APOLLO_MAX_CONTACTS", "apollo", "max_contacts", "int">>,
       <<"APOLLO_REQUEST_DELAY", "apollo", "request_delay", "float">>,
       <<"APOLLO_MAX_RETRIES", "apollo", "max_retries", "int">>,
       <<"APIFY_ACTOR_ID", "apify", "actor_id", "str">>,
       <<"APIFY_TIMEOUT", "apify", "timeout", "int">>,
       <<"APIFY_MEMORY_MB", "apify", "memory_mb", "int">>,
       <<"APOLLO_ENABLE_ENCRYPTION", "security", "enable_encryption", "bool">>,
       <<"APOLLO_SESSION_TIMEOUT", "security", "session_timeout_minutes", "int">>,
       <<"APOLLO_LOG_LEVEL", "logging", "log_level", "str">>,
       <<"APOLLO_LOG_DIRECTORY", "logging", "log_directory", "str">> >>

DigitValue(c) ==
    CASE c = "0" -> 0 [] c = "1" -> 1 [] c = "2" -> 2 [] c = "3" -> 3 [] c = "4" -> 4
      [] c = "5" -> 5 [] c = "6" -> 6 [] c = "7" -> 7 [] c = "8" -> 8 [] c = "9" -> 9

IsDigits(s) ==
    /\ s # <<>>
    /\ \A i \in 1..Len(s) : s[i] \in {"0", "1", "2", "3", "4", "5", "6", "7", "8", "9"}

RECURSIVE DigitsValue(_, _)
DigitsValue(s, acc) ==
    IF s = <<>> THEN acc ELSE DigitsValue(Tail(s), acc * 10 + DigitValue(Head(s)))

\* int(env_value): None for ValueError
ParseInt(s) ==
    IF IsDigits(s) THEN Some(DigitsValue(s, 0))
    ELSE IF s # <<>> /\ Head(s) = "-" /\ IsDigits(Tail(s))
         THEN Some(0 - DigitsValue(Tail(s), 0))
         ELSE None

\* float(env_value), in tenths, for digits with at most one decimal: None for
\* ValueError
ParseFloat(s) ==
    IF IsDigits(s) THEN Some(10 * DigitsValue(s, 0))
    ELSE IF /\ Len(s) >= 3
            /\ s[Len(s) - 1] = "."
            /\ IsDigits(SubSeq(s, 1, Len(s) - 2))
            /\ IsDigits(<<s[Len(s)]>>)
         THEN Some(10 * DigitsValue(SubSeq(s, 1, Len(s) - 2), 0) + DigitValue(s[Len(s)]))
         ELSE None

\* the conversion of env_value to value_type: None when it raises
\* ValueError or TypeError
Convert(value_type, env_value) ==
    CASE value_type = "bool" ->
            Some(Lower(env_value) \in {<<"true">>, <<"1">>, <<"yes">>, <<"on">>})
      [] value_type = "int" -> ParseInt(env_value)
      [] value_type = "float" -> ParseFloat(env_value)
      [] OTHER -> Some(env_value)

\* setattr(config_section, key, converted_value)
SetAttr(settings, sec, key, value) ==
    [settings EXCEPT ![sec] = [@ EXCEPT ![key] = value]]

\* load_from_environment(): the loop over env_mappings from entry k on
RECURSIVE LoadEnvFrom(_, _, _)
LoadEnvFrom(settings, env, k) ==
    IF k > Len(env_mappings) THEN settings
    ELSE LET e == env_mappings[k]
             converted == IF e[1] \in DOMAIN env THEN Convert(e[4], env[e[1]]) ELSE None
         IN  LoadEnvFrom(IF converted # None
                         THEN SetAttr(settings, e[2], e[3], converted[1])
                         ELSE settings,
                         env, k + 1)

load_from_environment_Skip(settings, env) == settings

\* load_from_environment()
load_from_environment(settings, env) == LoadEnvFrom(settings, env, 1)

OutOfRange_Inclusive(x, lo, hi) == x <= lo \/ x >= hi

\* x < lo or x > hi
OutOfRange(x, lo, hi) == x < lo \/ x > hi

\* errors.append(message) when the rule is violated
AppendIf(errors, violated, message) ==
    IF violated THEN Append(errors, message) ELSE errors

\* not os.getenv(var)
EnvMissing(env, var) == var \notin DOMAIN env \/ env[var] = <<>>

\* validate_configuration(): the list errors.  mkdir_ok: log_dir.mkdir
\* does not raise.
validate_configuration(settings, env, mkdir_ok) ==
    LET e1 == AppendIf(<<>>, EnvMissing(env, "OPENAI_API_KEY"),
                       "Missing required environment variable: OPENAI_API_KEY")
        e2 == AppendIf(e1, EnvMissing(env, "APIFY_TOKEN"),
                       "Missing required environment variable: APIFY_TOKEN")
        e3 == AppendIf(e2, OutOfRange(settings.browser.viewport_width, 800, 3840),
                       "Browser viewport width must be between 800 and 3840")
        e4 == AppendIf(e3, OutOfRange(settings.browser.viewport_height, 600, 2160),
                       "Browser viewport height must be between 600 and 2160")
        e5 == AppendIf(e4, OutOfRange(settings.browser.wait_for_network_idle, 10, 600),
                       "Network idle timeout must be between 1.0 and 60.0 seconds")
        e6 == AppendIf(e5, OutOfRange(settings.apollo.max_contacts, 1, 1000),
                       "Max contacts must be between 1 and 1000")
        e7 == AppendIf(e6, OutOfRange(settings.apollo.max_retries, 0, 10),
                       "Max retries must be between 0 and 10")
        e8 == AppendIf(e7, settings.apollo.job_titles = <<>>,
                       "At least one job title must be specified")
        e9 == AppendIf(e8, OutOfRange(settings.apify.timeout, 60, 3600),
                       "Apify timeout must be between 60 and 3600 seconds")
        e10 == AppendIf(e9, OutOfRange(settings.apify.memory_mb, 512, 8192),
                        "Apify memory must be between 512 and 8192 MB")
    IN  AppendIf(e10, settings.logging.enable_file_logging /\ ~mkdir_ok,
                 "Cannot create log directory")

\* ApolloConfigManager(): the settings when validate_configuration is called
ConfiguredSettings(file, env) ==
    load_from_environment(
        IF file.kind # "absent" THEN load_from_file(DefaultSettings, file)
        ELSE DefaultSettings,
        env)

\* a configuration file holding one setting
OneSetting(sec, key, value) ==
    [kind |-> "json", data |-> [s \in {sec} |-> [k \in {key} |-> value]]]

\* the configuration files tried: none, an unreadable one, files with one
\* setting at and around the limits, a key that is no attribute, two settings
ConfigFiles ==
    { [kind |-> "absent"], [kind |-> "unreadable"] }
    \cup { OneSetting("browser", "viewport_width", v) : v \in {799, 800, 3840, 3841} }
    \cup { OneSetting("browser", "viewport_height", v) : v \in {599, 600, 2160, 2161} }
    \cup { OneSetting("browser", "wait_for_network_idle", v) : v \in {9, 10, 600, 601} }
    \cup { OneSetting("apollo", "max_contacts", v) : v \in {0, 1, 1000, 1001} }
    \cup { OneSetting("apollo", "max_retries", v) : v \in {-1, 0, 10, 11} }
    \cup { OneSetting("apollo", "job_titles", v) : v \in {<<>>, << <<"CEO">> >>} }
    \cup { OneSetting("apify", "timeout", v) : v \in {59, 60, 3600, 3601} }
    \cup { OneSetting("apify", "memory_mb", v) : v \in {511, 512, 8192, 8193} }
    \cup { OneSetting("browser", "headless", TRUE),
           OneSetting("logging", "enable_file_logging", FALSE),
           OneSetting("browser", "no_such_setting", 1),
           [kind |-> "json",
            data |-> [s \in {"browser", "apify"} |->
                        IF s = "browser" THEN [k \in {"viewport_width"} |-> 100]
                        ELSE [k \in {"timeout", "memory_mb"} |->
                                IF k = "timeout" THEN 10 ELSE 2048]]] }

\* the values tried for a mapped environment variable
EnvValues(var) ==
    CASE var = "APOLLO_VIEWPORT_WIDTH" ->
            {<<"7", "9", "9">>, <<"8", "0", "0">>, <<"3", "8", "4", "0">>,
             <<"3", "8", "4", "1">>, <<"w", "i", "d", "e">>, <<>>}
      [] var = "APOLLO_VIEWPORT_HEIGHT" ->
            {<<"5", "9", "9">>, <<"2", "1", "6", "0">>, <<"2", "1", "6", "1">>}
      [] var = "APOLLO_MAX_CONTACTS" ->
            {<<"0">>, <<"1", "0", "0", "0">>, <<"1", "0", "0", "1">>, <<"5", "0", ".", "5">>}
      [] var = "APOLLO_MAX_RETRIES" -> {<<"-", "1">>, <<"1", "0">>, <<"1", "1">>}
      [] var = "APIFY_TIMEOUT" -> {<<"5", "9">>, <<"3", "6", "0", "0">>, <<"3", "6", "0", "1">>}
      [] var = "APIFY_MEMORY_MB" -> {<<"5", "1", "1">>, <<"8", "1", "9", "2">>, <<"8", "1", "9", "3">>}
      [] var = "APOLLO_REQUEST_DELAY" -> {<<"2", ".", "5">>, <<"3">>, <<"f", "a", "s", "t">>}
      [] var = "APOLLO_SESSION_TIMEOUT" -> {<<"4", "5">>}
      [] var \in {"APOLLO_HEADLESS", "APOLLO_STEALTH", "APOLLO_ENABLE_ENCRYPTION"} ->
            {<<"TRUE">>, <<"Yes">>, <<"0">>, <<"maybe">>}
      [] OTHER -> {<<"DEBUG">>}

\* the environments tried: the two required variables absent, empty or set,
\* and at most one mapped variable
Environments ==
    LET required == { r \in [{"OPENAI_API_KEY", "APIFY_TOKEN"} -> {"absent", "empty", "set"}] :
                        r["APIFY_TOKEN"] # "empty" }
        base(r) == [v \in { x \in DOMAIN r : r[x] # "absent" } |->
                      IF r[v] = "empty" THEN <<>> ELSE <<"secret">>]
    IN  { base(r) : r \in required }
        \cup UNION { { Put(base(r), env_mappings[k][1], value) :
                          r \in required, value \in EnvValues(env_mappings[k][1]) } :
                        k \in 1..Len(env_mappings) }

\* a process about to construct an ApolloConfigManager
InitConfig ==
    /\ config_file \in ConfigFiles
    /\ environ \in Environments
    /\ cm = None
    /\ cm_last = NoCall
    /\ IdleErrorHandler
    /\ IdleWrapper
    /\ IdleSession
    /\ IdlePipeline
    /\ IdleMonitor
    /\ IdleHooks
    /\ IdleCloudflare
    /\ IdleFetch

\* ApolloConfigManager()
NewApolloConfigManager(mkdir_ok) ==
    /\ cm_last = NoCall
    /\ LET settings == ConfiguredSettings(config_file, environ)
           errors == validate_configuration(settings, environ, mkdir_ok)
       IN  /\ cm' = IF errors = <<>> THEN Some(settings) ELSE None
           /\ cm_last' = [op |-> "ApolloConfigManager",
                          end |-> IF errors = <<>> THEN "return" ELSE "ConfigurationError",
                          errors |-> errors,
                          settings |-> settings,
                          mkdir_ok |-> mkdir_ok]
    /\ UNCHANGED <<config_file, environ, notCmVars>>

NextConfig == \E mkdir_ok \in BOOLEAN : NewApolloConfigManager(mkdir_ok)

SpecConfig == InitConfig /\ [][NextConfig]_vars

\* the entry of env_mappings for a setting, 0 if the setting has none
C12_Mapping(sec, key) ==
    LET ks == { k \in 1..Len(env_mappings) :
                  env_mappings[k][2] = sec /\ env_mappings[k][3] = key }
    IN  IF ks = {} THEN 0 ELSE CHOOSE k \in ks : TRUE

\* the value a setting has by the order defaults, file, environment
C12_Expected(sec, key) ==
    LET k == C12_Mapping(sec, key)
        parsed == IF k # 0 /\ env_mappings[k][1] \in DOMAIN environ
                  THEN Convert(env_mappings[k][4], environ[env_mappings[k][1]])
                  ELSE None
    IN  IF parsed # None THEN parsed[1]
        ELSE IF /\ config_file.kind = "json"
                /\ sec \in DOMAIN config_file.data
                /\ key \in DOMAIN config_file.data[sec]
             THEN config_file.data[sec][key]
             ELSE DefaultSettings[sec][key]

\* the environment without the mapped variables that cannot be parsed
C12_ParseableEnviron ==
    LET bad == { env_mappings[k][1] : k \in { j \in 1..Len(env_mappings) :
                    /\ env_mappings[j][1] \in DOMAIN environ
                    /\ Convert(env_mappings[j][4], environ[env_mappings[j][1]]) = None } }
    IN  [v \in (DOMAIN environ) \ bad |-> environ[v]]

\* C12: the sources are applied in the order defaults, config file,
\* environment: after construction each setting whose environment variable
\* is set and parseable has the environment value, every other setting
\* present in the config file has the file value, and the rest keep their
\* defaults; an environment value that cannot be parsed leaves the setting
\* unchanged and does not stop construction (the construction ends as it
\* does without that variable).
C12_SourceOrder ==
    cm_last.op = "ApolloConfigManager" =>
        /\ cm # <<>> =>
              \A sec \in DOMAIN DefaultSettings : \A key \in DOMAIN DefaultSettings[sec] :
                  cm[1][sec][key] = C12_Expected(sec, key)
        /\ cm_last.settings = ConfiguredSettings(config_file, C12_ParseableEnviron)
        /\ cm_last.errors = validate_configuration(
                                ConfiguredSettings(config_file, C12_ParseableEnviron),
                                C12_ParseableEnviron, cm_last.mkdir_ok)
        /\ cm_last.end = "return" <=> cm # <<>>

\* a manager is constructed with the width of the environment, the file
\* holding another width
C12_Witness ==
    /\ cm # <<>>
    /\ config_file = OneSetting("browser", "viewport_width", 800)
    /\ "APOLLO_VIEWPORT_WIDTH" \in DOMAIN environ
    /\ environ["APOLLO_VIEWPORT_WIDTH"] = <<"3", "8", "4", "0">>
    /\ cm[1].browser.viewport_width = 3840

\* the rules of the validation and whether the settings violate each
C13_Rules(settings, env) ==
    ("Missing required environment variable: OPENAI_API_KEY"
        :> ("OPENAI_API_KEY" \notin DOMAIN env \/ env["OPENAI_API_KEY"] = <<>>))
    @@ ("Missing required environment variable: APIFY_TOKEN"
        :> ("APIFY_TOKEN" \notin DOMAIN env \/ env["APIFY_TOKEN"] = <<>>))
    @@ ("Browser viewport width must be between 800 and 3840"
        :> (settings.browser.viewport_width \notin 800..3840))
    @@ ("Browser viewport height must be between 600 and 2160"
        :> (settings.browser.viewport_height \notin 600..2160))
    @@ ("Network idle timeout must be between 1.0 and 60.0 seconds"
        :> (settings.browser.wait_for_network_idle \notin 10..600))
    @@ ("Max contacts must be between 1 and 1000"
        :> (settings.apollo.max_contacts \notin 1..1000))
    @@ ("Max retries must be between 0 and 10"
        :> (settings.apollo.max_retries \notin 0..10))
    @@ ("At least one job title must be specified"
        :> (Len(settings.apollo.job_titles) = 0))
    @@ ("Apify timeout must be between 60 and 3600 seconds"
        :> (settings.apify.timeout \notin 60..3600))
    @@ ("Apify memory must be between 512 and 8192 MB"
        :> (settings.apify.memory_mb \notin 512..8192))

C13_Violated(settings, env) ==
    { r \in DOMAIN C13_Rules(settings, env) : C13_Rules(settings, env)[r] }

\* C13: validate_configuration raises one ConfigurationError whose context
\* lists every violated rule, each once, and returns normally only when no
\* rule is violated, so every constructed ApolloConfigManager satisfies all
\* of the constraints.
C13_ValidationComplete ==
    cm_last.op = "ApolloConfigManager" =>
        LET violated == C13_Violated(cm_last.settings, environ)
            listed == { cm_last.errors[i] : i \in 1..Len(cm_last.errors) }
        IN  /\ violated # {} => cm_last.end = "ConfigurationError"
            /\ listed \cap DOMAIN C13_Rules(cm_last.settings, environ) = violated
            /\ Cardinality(listed) = Len(cm_last.errors)
            /\ cm_last.end = "ConfigurationError" => cm = <<>>
            /\ cm_last.end = "return" =>
                  /\ violated = {}
                  /\ cm = <<cm_last.settings>>
                  /\ C13_Violated(cm[1], environ) = {}

\* a construction has failed with four rules violated at once
C13_Witness ==
    /\ cm_last.op = "ApolloConfigManager"
    /\ cm_last.end = "ConfigurationError"
    /\ Cardinality(C13_Violated(cm_last.settings, environ)) >= 4
    /\ Len(cm_last.errors) >= 4

----------------------------------------------------------------------------
\* cloudflare_bypass.py: test_cloudflare_bypass

\* strategies
strategies ==
    << [name |-> "Slow Navigation", wait_time |-> 45],
       [name |-> "Real Chrome", wait_time |-> 30],
       [name |-> "Stealth Mode", wait_time |-> 60] >>

Succeeded_CaseSensitive(result_str) == Contains(result_str, <<"SUCCESS">>)

\* "SUCCESS" in str(result).upper()
Succeeded(result_str) == Contains(Upper(result_str), <<"SUCCESS">>)

\* the str of what an agent returns
BypassTexts ==
    { <<"SUCCESS">>, <<"Result: ", "Success">>, <<"success">>,
      <<"BLOCKED">>, <<"un", "success", "ful">>, <<"blocked">> }

\* How an attempt goes: the profile or the agent cannot be built (setup), or
\* agent.run is called and returns (text) or raises; an exception raised
\* derives from Exception or does not.
AttemptOutcomes ==
    { [ev |-> "run", kind |-> "text", text |-> t] : t \in BypassTexts }
    \cup { [ev |-> "run", kind |-> k, text |-> <<>>] : k \in {"Exception", "BaseException"} }
    \cup { [ev |-> "setup", kind |-> "Exception", text |-> <<>>] }

\* the attempt ends in the return of its strategy
AttemptSucceeds(outcome) == outcome.kind = "text" /\ Succeeded(outcome.text)

\* the exception of the attempt leaves test_cloudflare_bypass
AttemptPropagates(outcome) ==
    outcome.kind \notin {"text"} /\ ~ExceptCatches(outcome.kind)

\* asyncio.run(test_cloudflare_bypass()), at the first turn of the loop
InitCloudflare ==
    /\ cb_pc = "attempt"
    /\ cb_i = 1
    /\ cb_log = <<>>
    /\ cb_return = "none"
    /\ IdleErrorHandler
    /\ IdleWrapper
    /\ IdleSession
    /\ IdlePipeline
    /\ IdleMonitor
    /\ IdleHooks
    /\ IdleConfig
    /\ IdleFetch

\* one turn of the loop, up to the return, the sleep or the end of the loop
BypassAttempt(outcome) ==
    /\ cb_pc = "attempt"
    /\ cb_log' = Append(cb_log, [ev |-> outcome.ev, i |-> cb_i, kind |-> outcome.kind,
                                 text |-> outcome.text])
    /\ IF AttemptSucceeds(outcome)
       THEN cb_pc' = "done" /\ cb_return' = strategies[cb_i].name
       ELSE IF AttemptPropagates(outcome)
       THEN cb_pc' = "done" /\ cb_return' = "raised"
       ELSE IF cb_i < Len(strategies)
       THEN cb_pc' = "sleep" /\ cb_return' = cb_return
       ELSE cb_pc' = "done" /\ cb_return' = "None"
    /\ UNCHANGED <<cb_i, notCbVars>>

\* await asyncio.sleep(60) and the next turn
BypassSleep ==
    /\ cb_pc = "sleep"
    /\ cb_log' = Append(cb_log, [ev |-> "sleep", i |-> cb_i, kind |-> "60", text |-> <<>>])
    /\ cb_i' = cb_i + 1
    /\ cb_pc' = "attempt"
    /\ UNCHANGED <<cb_return, notCbVars>>

NextCloudflare ==
    \/ \E outcome \in AttemptOutcomes : BypassAttempt(outcome)
    \/ BypassSleep

SpecCloudflare == InitCloudflare /\ [][NextCloudflare]_vars

\* the log is attempt 1, sleep, attempt 2, sleep, attempt 3, cut somewhere:
\* the strategies in listed order, one attempt each, 60 seconds between
C17_InOrder ==
    /\ Len(cb_log) <= 2 * Len(strategies) - 1
    /\ \A k \in 1..Len(cb_log) :
          IF k % 2 = 1
          THEN cb_log[k].ev \in {"run", "setup"} /\ cb_log[k].i = (k + 1) \div 2
          ELSE cb_log[k].ev = "sleep" /\ cb_log[k].kind = "60"
    /\ cb_pc = "done" => Len(cb_log) % 2 = 1
    /\ cb_pc = "sleep" => Len(cb_log) % 2 = 1
    /\ cb_pc = "attempt" => Len(cb_log) % 2 = 0

\* C17 as stated: the first strategy whose result contains SUCCESS is
\* returned, every exception in an attempt is a failure, None is returned
\* when all three fail, with 60 seconds slept after each failed attempt but
\* the last.
C17_Original ==
    LET success(e) == e.kind = "text" /\ Contains(e.text, <<"SUCCESS">>)
    IN  /\ C17_InOrder
        /\ cb_return # "raised"
        /\ \A k \in 1..Len(cb_log) :
              (k % 2 = 1 /\ (k < Len(cb_log) \/ cb_pc = "sleep")) => ~success(cb_log[k])
        /\ cb_pc = "done" =>
              IF success(cb_log[Len(cb_log)])
              THEN cb_return = strategies[cb_log[Len(cb_log)].i].name
              ELSE cb_return = "None" /\ Len(cb_log) = 2 * Len(strategies) - 1

\* C17: the strategies are tried in listed order, at most one agent each; the
\* first strategy whose agent result, upper-cased, contains SUCCESS is
\* returned and no later one is tried; an exception that derives from
\* Exception is a failure and the loop continues, any other exception leaves
\* the coroutine; None is returned when all three fail; 60 seconds are slept
\* after each failed attempt but the last.
C17_FirstSuccess ==
    LET success(e) == e.kind = "text" /\ Contains(Upper(e.text), <<"SUCCESS">>)
        escapes(e) == e.kind = "BaseException"
    IN  /\ C17_InOrder
        /\ \A k \in 1..Len(cb_log) :
              (k % 2 = 1 /\ (k < Len(cb_log) \/ cb_pc = "sleep")) =>
                  ~success(cb_log[k]) /\ ~escapes(cb_log[k])
        /\ cb_pc = "done" =>
              IF success(cb_log[Len(cb_log)])
              THEN cb_return = strategies[cb_log[Len(cb_log)].i].name
              ELSE IF escapes(cb_log[Len(cb_log)])
              THEN cb_return = "raised"
              ELSE cb_return = "None" /\ Len(cb_log) = 2 * Len(strategies) - 1
        /\ cb_pc # "done" => cb_return = "none"

\* the third strategy is returned after an exception in the first attempt and
\* a BLOCKED in the second, on a result that says success in lower case
C17_Witness ==
    /\ cb_pc = "done"
    /\ cb_return = "Stealth Mode"
    /\ Len(cb_log) = 5
    /\ cb_log[1].kind = "Exception"
    /\ cb_log[3].text = <<"BLOCKED">>
    /\ cb_log[5].text = <<"success">>

----------------------------------------------------------------------------
\* fetch_apify_data.py.  What a fetch function gives is a pair (items,
\* dataset_id), the bare None, or an exception that leaves it; items is None
\* or the list of items.

\* return items, dataset_id
Pair(items, dataset_id) == [kind |-> "pair", items |-> items, dataset_id |-> dataset_id]

\* list(dataset_client.iterate_items()) for an answer of Apify, then the
\* return; the except clause gives (None, None)
FetchItems(answer, dataset_id) ==
    IF answer.kind = "items" THEN Pair(Some(answer.items), Some(dataset_id))
    ELSE IF ExceptCatches(answer.kind) THEN Pair(None, None)
    ELSE [kind |-> "raise", items |-> None, dataset_id |-> None]

\* fetch_by_run_id(client, run_id).  apify.run: what run_client.get() gives:
\* it raises, returns None (no such run), or the run's info with or without
\* a defaultDatasetId.
fetch_by_run_id(apify, run_id) ==
    IF apify.run.kind \in {"Exception", "BaseException"}
    THEN (IF ExceptCatches(apify.run.kind) THEN Pair(None, None)
          ELSE [kind |-> "raise", items |-> None, dataset_id |-> None])
    ELSE IF apify.run.kind = "none"
    THEN Pair(None, None)
    ELSE IF apify.run.defaultDatasetId = None
    THEN [kind |-> "none", items |-> None, dataset_id |-> None]
    ELSE FetchItems(apify.dataset, apify.run.defaultDatasetId[1])

\* fetch_by_dataset_id(client, dataset_id)
fetch_by_dataset_id(apify, dataset_id) == FetchItems(apify.dataset, dataset_id)

\* save_data(df, dataset_id): the files written for the items processed
save_data(items) ==
    IF items = <<>> THEN {} ELSE {"csv", "json", "metadata"}

\* main(): how it ends (returned, or raised with the exception), the last
\* failure it prints, what the fetch function gave and the files written
main_fetch(input) ==
    LET ended(end, message, fetched, files) ==
            [op |-> "main", end |-> end, message |-> message, fetched |-> fetched,
             files |-> files]
        after(r) ==
            IF r.kind = "raise" THEN ended("raised", "BaseException", r.kind, {})
            ELSE IF r.kind = "none" THEN ended("raised", "TypeError", r.kind, {})
            ELSE IF r.items = None THEN ended("returned", "Failed to fetch data", r.kind, {})
            ELSE IF save_data(r.items[1]) = {}
                 THEN ended("returned", "No data to save", r.kind, {})
                 ELSE ended("returned", "complete", r.kind, save_data(r.items[1]))
    IN  IF ~ApifyTokenSet(input.token)
        THEN ended("returned", "APIFY_TOKEN not found", "not called", {})
        ELSE IF input.choice = "1"
        THEN (IF input.id = "" THEN ended("returned", "No run ID provided", "not called", {})
              ELSE after(fetch_by_run_id(input.apify, input.id)))
        ELSE IF input.choice = "2"
        THEN (IF input.id = "" THEN ended("returned", "No dataset ID provided", "not called", {})
              ELSE after(fetch_by_dataset_id(input.apify, input.id)))
        ELSE ended("returned", "Invalid option", "not called", {})

\* what Apify answers about the run and about the dataset
ApifyAnswers ==
    [run : { [kind |-> "Exception", defaultDatasetId |-> None],
             [kind |-> "BaseException", defaultDatasetId |-> None],
             [kind |-> "none", defaultDatasetId |-> None],
             [kind |-> "info", defaultDatasetId |-> None],
             [kind |-> "info", defaultDatasetId |-> Some("ds1")] },
     dataset : { [kind |-> "Exception", items |-> <<>>],
                 [kind |-> "BaseException", items |-> <<>>],
                 [kind |-> "items", items |-> <<>>],
                 [kind |-> "items", items |-> <<"contact1", "contact2">>] }]

\* APIFY_TOKEN, the option and the ID typed (stripped), and Apify
FetchInputs ==
    [token : {None, Some(""), Some("apify_api_token")},
     choice : {"1", "2", "3"},
     id : {"", "id1"},
     apify : ApifyAnswers]

\* python fetch_apify_data.py
InitFetch ==
    /\ fa_input \in FetchInputs
    /\ output_files = {}
    /\ fa_last = NoCall
    /\ IdleErrorHandler
    /\ IdleWrapper
    /\ IdleSession
    /\ IdlePipeline
    /\ IdleMonitor
    /\ IdleHooks
    /\ IdleConfig
    /\ IdleCloudflare

\* main()
MainFetch ==
    /\ fa_last = NoCall
    /\ fa_last' = main_fetch(fa_input)
    /\ output_files' = output_files \cup main_fetch(fa_input).files
    /\ UNCHANGED <<fa_input, notFaVars>>

NextFetch == MainFetch

SpecFetch == InitFetch /\ [][NextFetch]_vars

\* C18: fetch_by_run_id and fetch_by_dataset_id always return a pair
\* (items, dataset_id), with items = None on every failure, so main reports
\* every fetch failure, a run that has no default dataset included, as
\* 'Failed to fetch data' and ends without an unhandled exception and without
\* writing any output file.  (Failures are those that are not an exception
\* outside Exception raised by the client.)
C18_FetchFailureReported ==
    LET apify == fa_input.apify
        by_run == fa_input.choice = "1"
        interrupted ==
            \/ by_run /\ apify.run.kind = "BaseException"
            \/ apify.dataset.kind = "BaseException"
                 /\ (by_run => apify.run.kind = "info" /\ apify.run.defaultDatasetId # <<>>)
        failed ==
            \/ by_run /\ apify.run.kind \in {"Exception", "none"}
            \/ by_run /\ apify.run.kind = "info" /\ apify.run.defaultDatasetId = <<>>
            \/ apify.dataset.kind = "Exception"
                 /\ (by_run => apify.run.kind = "info" /\ apify.run.defaultDatasetId # <<>>)
    IN  (fa_last.op = "main" /\ fa_last.fetched # "not called" /\ ~interrupted) =>
            /\ fa_last.fetched = "pair"
            /\ failed =>
                  /\ fa_last.end = "returned"
                  /\ fa_last.message = "Failed to fetch data"
                  /\ output_files = {}

====
